---- MODULE Spec2Model ----
(***************************************************************************)
(* Token usage and cost accounting of the e2e-agent harness                *)
(* (src/src/agent/token_usage.py): the pricing chain of PricingCalculator  *)
(* and the ledger of TokenUsageTracker with its statistics file.           *)
(*                                                                         *)
(* Numbers.  Python floats are modelled by exact decimal fixed point:      *)
(*   - a cost is an integer number of 1e-8 USD (CostUnit per USD);         *)
(*   - a rate is an integer number of 1e-2 USD per million tokens          *)
(*     (RateUnit per USD);                                                 *)
(*   - a number of the pricing feed is a decimal literal [m, e], the value *)
(*     m * 10^e USD per token.                                             *)
(* round(x, n) is round-half-even on the exact value; the representation   *)
(* error of binary floating point is not modelled.                         *)
(***************************************************************************)
EXTENDS Integers, Sequences, FiniteSets, TLC

RECURSIVE Pow10(_)
Pow10(n) == IF n <= 0 THEN 1 ELSE 10 * Pow10(n - 1)

\* 1_000_000 of _calculate_token_cost and _extract_model_rates
MILLION == 1000000

\* cost units per USD, rate units per USD
CostUnit == Pow10(8)
RateUnit == Pow10(2)

\* Python round(x, places) of a cost x (in cost units): the nearest multiple
\* of 10^-places USD, ties to the even multiple.
Round(x, places) ==
    LET q    == CostUnit \div Pow10(places)
        lo   == x \div q
        rest == x % q
    IN  IF 2 * rest < q THEN lo * q
        ELSE IF 2 * rest > q THEN (lo + 1) * q
        ELSE IF lo % 2 = 0 THEN lo * q
        ELSE (lo + 1) * q

RECURSIVE SeqSum(_)
SeqSum(s) == IF s = <<>> THEN 0 ELSE Head(s) + SeqSum(Tail(s))

\* [f(s[i]) for i], for a sequence of records and a field selector
SeqMap(Op(_), s) == [i \in 1..Len(s) |-> Op(s[i])]

Prefix(s, k) == SubSeq(s, 1, k)

(***************************************************************************)
(* Model identifiers.  A model id is a sequence of atoms, so that          *)
(* startswith, replace and split("-v") act on it as they do on the string: *)
(* "us.anthropic.claude-sonnet-4-5-20250929-v1:0" is                       *)
(* <<"us.", "anthropic.", "claude-sonnet-4-5-20250929", "-v", "1:0">>.     *)
(***************************************************************************)
SONNET45 == "claude-sonnet-4-5-20250929"
OPUS45   == "claude-opus-4-5-20251101"
OPUS4    == "claude-opus-4-20250514"
HAIKU45  == "claude-haiku-4-5-20251001"
SONNET35 == "claude-3-5-sonnet-20241022"
HAIKU35  == "claude-3-5-haiku-20241022"

BareId(name)     == <<name>>
ProfileId(name)  == <<"us.", "anthropic.", name, "-v", "1:0">>
ProviderId(name) == <<"anthropic.", name, "-v", "1:0">>
UnknownId        == <<"gpt-unknown-9000">>

\* str.startswith
StartsWith(s, p) == Len(s) >= Len(p) /\ SubSeq(s, 1, Len(p)) = p

\* str.replace(p, ""): every occurrence of p removed, left to right
RECURSIVE Remove(_, _)
Remove(s, p) ==
    IF s = <<>> THEN <<>>
    ELSE IF StartsWith(s, p) THEN Remove(SubSeq(s, Len(p) + 1, Len(s)), p)
    ELSE <<Head(s)>> \o Remove(Tail(s), p)

\* str.split("-v")[0]: what precedes the first "-v"
RECURSIVE BeforeVersion(_)
BeforeVersion(s) ==
    IF s = <<>> THEN <<>>
    ELSE IF Head(s) = "-v" THEN <<>>
    ELSE <<Head(s)>> \o BeforeVersion(Tail(s))

\* PricingCalculator._get_model_variants
GetModelVariants(model) ==
    <<model>>
    \o (IF StartsWith(model, <<"us.", "anthropic.">>)
        THEN << BeforeVersion(Remove(model, <<"us.", "anthropic.">>)),
                <<"bedrock/">> \o model >>
        ELSE <<>>)
    \o (IF StartsWith(model, <<"anthropic.">>)
        THEN << BeforeVersion(Remove(model, <<"anthropic.">>)) >>
        ELSE <<>>)

\* PricingCalculator._get_base_model_name
GetBaseModelName(model) ==
    BeforeVersion(Remove(Remove(model, <<"us.", "anthropic.">>), <<"anthropic.">>))

(***************************************************************************)
(* Pricing data.                                                           *)
(***************************************************************************)
Rates(i, o, cw, cr) ==
    [input_rate |-> i, output_rate |-> o, cache_write_rate |-> cw, cache_read_rate |-> cr]

\* FALLBACK_PRICING, in rate units (3.00 USD per million tokens is 300)
FALLBACK_PRICING ==
    (BareId(SONNET45) :> Rates(300, 1500, 375, 30))
    @@ (BareId(OPUS45) :> Rates(500, 2500, 625, 50))
    @@ (BareId(OPUS4) :> Rates(1500, 7500, 1875, 150))
    @@ (BareId(HAIKU45) :> Rates(100, 500, 125, 10))
    @@ (BareId(SONNET35) :> Rates(300, 1500, 375, 30))
    @@ (BareId(HAIKU35) :> Rates(80, 400, 100, 8))

\* DEFAULT_CACHE_VALIDITY_HOURS, and the seconds of an hour in is_cache_valid
DEFAULT_CACHE_VALIDITY_HOURS == 24
SECONDS_PER_HOUR == 3600

\* A number of the feed: m * 10^e USD per token; or a key that is missing
\* from the entry; or a JSON null.
Num(m, e) == [k |-> "num", m |-> m, e |-> e]
Missing   == [k |-> "missing", m |-> 0, e |-> 0]
Null      == [k |-> "null", m |-> 0, e |-> 0]

FeedFields == {"input_cost_per_token", "output_cost_per_token",
               "cache_creation_input_token_cost", "cache_read_input_token_cost"}

\* An entry of the pricing table: a JSON object of cost fields ("dict"), the
\* empty object {} ("empty", falsy in Python), or a value that is no object
\* ("str").  NoEntry stands for dict.get returning None.
Entry(i, o, cw, cr) ==
    [kind |-> "dict",
     f |-> [input_cost_per_token |-> i, output_cost_per_token |-> o,
            cache_creation_input_token_cost |-> cw, cache_read_input_token_cost |-> cr]]
AllMissing == [input_cost_per_token |-> Missing, output_cost_per_token |-> Missing,
               cache_creation_input_token_cost |-> Missing,
               cache_read_input_token_cost |-> Missing]
NoEntry    == [kind |-> "none", f |-> AllMissing]
EmptyEntry == [kind |-> "empty", f |-> AllMissing]
StrEntry   == [kind |-> "str", f |-> AllMissing]

\* JSON values that pricing data can be: an object keyed by model id
\* ("table"), an array ("list"), or absent/None ("none").
Table(t)    == [kind |-> "table", tbl |-> t]
NoKeys      == [id \in {} |-> NoEntry]
ListValue   == [kind |-> "list", tbl |-> NoKeys]
NoneValue   == [kind |-> "none", tbl |-> NoKeys]

\* Python truthiness of a JSON value / of an entry
Truthy(v) ==
    CASE v.kind = "table" -> DOMAIN v.tbl # {}
      [] v.kind = "list"  -> TRUE
      [] OTHER            -> FALSE
EntryTruthy(e) == e.kind \in {"dict", "str"}

\* pricing_data.get(key) on a table
TableGet(t, key) == IF key \in DOMAIN t THEN t[key] ELSE NoEntry

\* The pricing cache file: absent, text that is no JSON ("garbage"), a JSON
\* array ("list"), or a JSON object with optional fetched_at and pricing
\* ("envelope"; fetched_at = -1 stands for a missing key).
NoFetchedAt == 0 - 1
CacheAbsent  == [kind |-> "absent", fetched_at |-> NoFetchedAt, pricing |-> NoneValue]
CacheGarbage == [kind |-> "garbage", fetched_at |-> NoFetchedAt, pricing |-> NoneValue]
CacheList    == [kind |-> "list", fetched_at |-> NoFetchedAt, pricing |-> NoneValue]
Envelope(at, pricing) == [kind |-> "envelope", fetched_at |-> at, pricing |-> pricing]

\* Results of the operations that may return None or raise
Some(v)  == [r |-> "some", v |-> v]
NoRates  == Rates(0, 0, 0, 0)
None     == [r |-> "none", v |-> NoRates]
Raise    == [r |-> "raise", v |-> NoRates]

\* model_info.get(field, 0) * 10_000_000: a rate per ten million tokens
PerTenMillion(x) ==
    IF x.k = "missing" THEN 0
    ELSE x.m * ((10 * MILLION * RateUnit) \div Pow10(0 - x.e))

\* model_info.get(field, 0) * 1_000_000: the per-token value of the feed as a
\* rate per million tokens, in rate units.
PerMillion(x) ==
    IF x.k = "missing" THEN 0
    ELSE x.m * ((MILLION * RateUnit) \div Pow10(0 - x.e))

\* PricingCalculator._extract_model_rates(pricing_data, model)
FirstTruthy(t, keys) ==
    IF \E i \in 1..Len(keys) : EntryTruthy(TableGet(t, keys[i]))
    THEN TableGet(t, keys[CHOOSE i \in 1..Len(keys) :
                            /\ EntryTruthy(TableGet(t, keys[i]))
                            /\ \A j \in 1..(i - 1) : ~EntryTruthy(TableGet(t, keys[j]))])
    ELSE NoEntry

ExtractModelRates(pricing_data, model) ==
    IF pricing_data.kind # "table" THEN Raise      \* list.get: AttributeError
    ELSE
      LET direct     == TableGet(pricing_data.tbl, model)
          model_info == IF EntryTruthy(direct) THEN direct
                        ELSE FirstTruthy(pricing_data.tbl, GetModelVariants(model))
      IN  IF ~EntryTruthy(model_info) THEN None
          ELSE IF model_info.kind = "str" THEN Raise       \* str.get: AttributeError
          ELSE IF \E fld \in FeedFields : model_info.f[fld].k = "null"
               THEN None                                   \* None * int: TypeError, caught
          ELSE Some(Rates(PerMillion(model_info.f.input_cost_per_token),
                          PerMillion(model_info.f.output_cost_per_token),
                          PerMillion(model_info.f.cache_creation_input_token_cost),
                          PerMillion(model_info.f.cache_read_input_token_cost)))

\* get_fallback_rates without the step that strips prefixes and version
GetFallbackRatesExactOnly(model) ==
    IF model \in DOMAIN FALLBACK_PRICING THEN FALLBACK_PRICING[model]
    ELSE FALLBACK_PRICING[BareId(SONNET45)]

\* PricingCalculator.get_fallback_rates
GetFallbackRates(model) ==
    IF model \in DOMAIN FALLBACK_PRICING THEN FALLBACK_PRICING[model]
    ELSE IF GetBaseModelName(model) \in DOMAIN FALLBACK_PRICING
         THEN FALLBACK_PRICING[GetBaseModelName(model)]
    ELSE FALLBACK_PRICING[BareId(SONNET45)]

\* is_cache_valid that never finds the cache valid
IsCacheValidNever(cache, t) ==
    IF cache.kind = "list" THEN "raise" ELSE "false"

\* is_cache_valid that still accepts a cache of exactly the window's age
IsCacheValidInclusive(cache, t) ==
    CASE cache.kind = "absent"  -> "false"
      [] cache.kind = "garbage" -> "false"
      [] cache.kind = "list"    -> "raise"
      [] OTHER ->
           LET fetched_at == IF cache.fetched_at = NoFetchedAt THEN 0 ELSE cache.fetched_at
           IN  IF (t - fetched_at) <= DEFAULT_CACHE_VALIDITY_HOURS * SECONDS_PER_HOUR
               THEN "true" ELSE "false"

\* PricingCalculator.is_cache_valid: "true", "false" or "raise"
IsCacheValid(cache, t) ==
    CASE cache.kind = "absent"  -> "false"
      [] cache.kind = "garbage" -> "false"          \* JSONDecodeError, caught
      [] cache.kind = "list"    -> "raise"          \* list.get: AttributeError
      [] OTHER ->
           LET fetched_at == IF cache.fetched_at = NoFetchedAt THEN 0 ELSE cache.fetched_at
           IN  IF (t - fetched_at) < DEFAULT_CACHE_VALIDITY_HOURS * SECONDS_PER_HOUR
               THEN "true" ELSE "false"

\* PricingCalculator.load_cached_prices: the pricing value, NoneValue, or a raise
LoadCachedPrices(cache) ==
    CASE cache.kind = "absent"  -> [r |-> "some", v |-> NoneValue]
      [] cache.kind = "garbage" -> [r |-> "some", v |-> NoneValue]
      [] cache.kind = "list"    -> [r |-> "raise", v |-> NoneValue]
      [] OTHER                  -> [r |-> "some", v |-> cache.pricing]

\* What requests.get(...).json() does: a network error (RequestException), a
\* body that is no JSON (JSONDecodeError), or a JSON value.
NetworkError   == [kind |-> "network_error", value |-> NoneValue]
NonJson        == [kind |-> "non_json", value |-> NoneValue]
JsonBody(v)    == [kind |-> "json", value |-> v]

\* PricingCalculator.fetch_latest_prices: the JSON value, or NoneValue
FetchLatestPrices(fetch) ==
    IF fetch.kind = "json" THEN fetch.value ELSE NoneValue

\* PricingCalculator.update_price_cache: whether the cache was updated, and the
\* cache file afterwards.  write_ok = FALSE is an IOError of mkdir, open,
\* json.dump or rename, which the function catches.
UpdatePriceCache(cache, t, fetch, write_ok) ==
    LET pricing_data == FetchLatestPrices(fetch)
    IN  IF ~Truthy(pricing_data) THEN [ok |-> FALSE, cache |-> cache]
        ELSE IF write_ok THEN [ok |-> TRUE, cache |-> Envelope(t, pricing_data)]
        ELSE [ok |-> FALSE, cache |-> cache]

\* One lookup of get_rates: load_cached_prices, then _extract_model_rates when
\* the loaded value is truthy.
Lookup(cache, model) ==
    LET cached_prices == LoadCachedPrices(cache)
    IN  IF cached_prices.r = "raise" THEN Raise
        ELSE IF ~Truthy(cached_prices.v) THEN None
        ELSE ExtractModelRates(cached_prices.v, model)

RatesResult(outcome, rates, trace, cache) ==
    [outcome |-> outcome, rates |-> rates, trace |-> trace, cache |-> cache]

\* get_rates that goes from a failed fetch straight to the hardcoded table
GetRatesNoDiskCache(cache, t, model, fetch, write_ok) ==
    LET valid  == IsCacheValid(cache, t)
        first  == IF valid = "true" THEN Lookup(cache, model) ELSE None
        t1     == IF valid = "true" THEN <<"valid_cache">> ELSE <<>>
        upd    == UpdatePriceCache(cache, t, fetch, write_ok)
        second == IF upd.ok THEN Lookup(upd.cache, model) ELSE None
        t2     == t1 \o <<"fetch">>
    IN  IF valid = "raise" \/ first.r = "raise" THEN RatesResult("raised", NoRates, t1, cache)
        ELSE IF first.r = "some" THEN RatesResult("returned", first.v, t1, cache)
        ELSE IF second.r = "raise" THEN RatesResult("raised", NoRates, t2, upd.cache)
        ELSE IF second.r = "some" THEN RatesResult("returned", second.v, t2, upd.cache)
        ELSE RatesResult("returned", GetFallbackRates(model),
                         t2 \o <<"hardcoded">>, upd.cache)

\* PricingCalculator.get_rates(model) on cache file `cache` at time t, when the
\* fetch does `fetch` and the cache write succeeds or not.  trace lists the
\* sources the call consulted, in order; its last element is the source of
\* the returned rates.
GetRates(cache, t, model, fetch, write_ok) ==
    LET valid  == IsCacheValid(cache, t)
        first  == IF valid = "true" THEN Lookup(cache, model) ELSE None
        t1     == IF valid = "true" THEN <<"valid_cache">> ELSE <<>>
        upd    == UpdatePriceCache(cache, t, fetch, write_ok)
        second == IF upd.ok THEN Lookup(upd.cache, model) ELSE None
        t2     == t1 \o <<"fetch">>
        third  == Lookup(upd.cache, model)
        t3     == t2 \o <<"disk_cache">>
    IN  IF valid = "raise" THEN RatesResult("raised", NoRates, t1, cache)
        ELSE IF first.r = "raise" THEN RatesResult("raised", NoRates, t1, cache)
        ELSE IF first.r = "some" THEN RatesResult("returned", first.v, t1, cache)
        ELSE IF second.r = "raise" THEN RatesResult("raised", NoRates, t2, upd.cache)
        ELSE IF second.r = "some" THEN RatesResult("returned", second.v, t2, upd.cache)
        ELSE IF third.r = "raise" THEN RatesResult("raised", NoRates, t3, upd.cache)
        ELSE IF third.r = "some" THEN RatesResult("returned", third.v, t3, upd.cache)
        ELSE RatesResult("returned", GetFallbackRates(model),
                         t3 \o <<"hardcoded">>, upd.cache)

\* PricingCalculator._calculate_token_cost: (count / 1_000_000) * rate, in cost units
CalculateTokenCost(token_count, rate_per_million) ==
    token_count * rate_per_million * (CostUnit \div (MILLION * RateUnit))

\* tokens.get(key, 0) on a token dict: a function from some of the token keys
TokenGet(tokens, key) == IF key \in DOMAIN tokens THEN tokens[key] ELSE 0

\* calculate_cost whose total is the sum of the rounded components
CostBreakdownSumRounded(tokens, rates) ==
    LET input_cost  == CalculateTokenCost(TokenGet(tokens, "input_tokens"), rates.input_rate)
        output_cost == CalculateTokenCost(TokenGet(tokens, "output_tokens"), rates.output_rate)
        cache_creation_cost ==
            CalculateTokenCost(TokenGet(tokens, "cache_creation_tokens"), rates.cache_write_rate)
        cache_read_cost ==
            CalculateTokenCost(TokenGet(tokens, "cache_read_tokens"), rates.cache_read_rate)
    IN  [input_cost |-> Round(input_cost, 6),
         output_cost |-> Round(output_cost, 6),
         cache_creation_cost |-> Round(cache_creation_cost, 6),
         cache_read_cost |-> Round(cache_read_cost, 6),
         total_cost |-> Round(input_cost, 6) + Round(output_cost, 6)
                        + Round(cache_creation_cost, 6) + Round(cache_read_cost, 6)]

\* calculate_cost whose total is rounded to 4 places, as the summary's is
CostBreakdownTotal4(tokens, rates) ==
    LET input_cost  == CalculateTokenCost(TokenGet(tokens, "input_tokens"), rates.input_rate)
        output_cost == CalculateTokenCost(TokenGet(tokens, "output_tokens"), rates.output_rate)
        cache_creation_cost ==
            CalculateTokenCost(TokenGet(tokens, "cache_creation_tokens"), rates.cache_write_rate)
        cache_read_cost ==
            CalculateTokenCost(TokenGet(tokens, "cache_read_tokens"), rates.cache_read_rate)
        total_cost  == input_cost + output_cost + cache_creation_cost + cache_read_cost
    IN  [input_cost |-> Round(input_cost, 6),
         output_cost |-> Round(output_cost, 6),
         cache_creation_cost |-> Round(cache_creation_cost, 6),
         cache_read_cost |-> Round(cache_read_cost, 6),
         total_cost |-> Round(total_cost, 4)]

\* The arithmetic of PricingCalculator.calculate_cost, after get_rates
CostBreakdown(tokens, rates) ==
    LET input_cost  == CalculateTokenCost(TokenGet(tokens, "input_tokens"), rates.input_rate)
        output_cost == CalculateTokenCost(TokenGet(tokens, "output_tokens"), rates.output_rate)
        cache_creation_cost ==
            CalculateTokenCost(TokenGet(tokens, "cache_creation_tokens"), rates.cache_write_rate)
        cache_read_cost ==
            CalculateTokenCost(TokenGet(tokens, "cache_read_tokens"), rates.cache_read_rate)
        total_cost  == input_cost + output_cost + cache_creation_cost + cache_read_cost
    IN  [input_cost |-> Round(input_cost, 6),
         output_cost |-> Round(output_cost, 6),
         cache_creation_cost |-> Round(cache_creation_cost, 6),
         cache_read_cost |-> Round(cache_read_cost, 6),
         total_cost |-> Round(total_cost, 6)]

(***************************************************************************)
(* The ledger (TokenUsageTracker.data) and its JSON text.                  *)
(***************************************************************************)
TokenKeys == {"input_tokens", "output_tokens", "cache_creation_tokens", "cache_read_tokens"}

NoTokens == [input_tokens |-> 0, output_tokens |-> 0, cache_creation_tokens |-> 0,
             cache_read_tokens |-> 0, total_tokens |-> 0]
NoCosts  == [input_cost |-> 0, output_cost |-> 0, cache_creation_cost |-> 0,
             cache_read_cost |-> 0, total_cost |-> 0]

\* The summary of the structure _load_or_initialize builds at time t
EmptySummary(t) ==
    [total_sessions |-> 0, total_input_tokens |-> 0, total_output_tokens |-> 0,
     total_cache_creation_tokens |-> 0, total_cache_read_tokens |-> 0,
     total_tokens |-> 0, total_cost_usd |-> 0, last_updated |-> t]

\* self.data: a JSON object with sessions and summary ("ledger"), or, loaded
\* from a file of another shape, a JSON array ("list") or an object without
\* the two keys ("object").
Ledger(sessions, summary) == [shape |-> "ledger", sessions |-> sessions, summary |-> summary]
EmptyLedger(t) == Ledger(<<>>, EmptySummary(t))
ListData   == [shape |-> "list", sessions |-> <<>>, summary |-> EmptySummary(0)]
ObjectData == [shape |-> "object", sessions |-> <<>>, summary |-> EmptySummary(0)]

\* JSON text is a sequence of tokens; a token carries at most one value.
Tok(t)       == [t |-> t, v |-> <<>>]
ValTok(t, x) == [t |-> t, v |-> <<x>>]

\* json.dump(self.data, f, indent=2)
Dump(data) ==
    CASE data.shape = "list"   -> <<Tok("["), Tok("]")>>
      [] data.shape = "object" -> <<Tok("{"), Tok("}")>>
      [] OTHER ->
           <<Tok("{"), Tok("sessions"), Tok("[")>>
           \o [i \in 1..Len(data.sessions) |-> ValTok("session", data.sessions[i])]
           \o <<Tok("]"), Tok("summary"), ValTok("summary_value", data.summary), Tok("}")>>

\* json.load(f): the value of a complete JSON text; any other text (a
\* truncated one, the empty one, garbage) is a JSONDecodeError.
IsLedgerText(text) ==
    LET n == Len(text)
    IN  /\ n >= 7
        /\ text[1] = Tok("{") /\ text[2] = Tok("sessions") /\ text[3] = Tok("[")
        /\ \A i \in 4..(n - 4) : text[i].t = "session"
        /\ text[n - 3] = Tok("]") /\ text[n - 2] = Tok("summary")
        /\ text[n - 1].t = "summary_value" /\ text[n] = Tok("}")

JsonLoad(text) ==
    CASE text = <<Tok("["), Tok("]")>> -> [ok |-> TRUE, data |-> ListData]
      [] text = <<Tok("{"), Tok("}")>> -> [ok |-> TRUE, data |-> ObjectData]
      [] IsLedgerText(text) ->
           [ok |-> TRUE,
            data |-> Ledger([i \in 1..(Len(text) - 7) |-> text[i + 3].v[1]],
                            text[Len(text) - 1].v[1])]
      [] OTHER -> [ok |-> FALSE, data |-> ObjectData]

\* A file: absent, or present with a text
Absent     == [kind |-> "absent", text |-> <<>>]
File(text) == [kind |-> "text", text |-> text]
GarbageFile == File(<<Tok("garbage")>>)

\* TokenUsageTracker._load_or_initialize at time t; readable = FALSE is an
\* IOError of open or read.
LoadOrInitialize(file, readable, t) ==
    IF file.kind = "text" /\ readable /\ JsonLoad(file.text).ok
    THEN JsonLoad(file.text).data
    ELSE EmptyLedger(t)

\* A session entry with its token and cost fields ("record"), or one loaded
\* from disk that lacks them ("bare").
HasFields(s) == s.kind = "record"

InputOf(s)         == s.tokens.input_tokens
OutputOf(s)        == s.tokens.output_tokens
CacheCreationOf(s) == s.tokens.cache_creation_tokens
CacheReadOf(s)     == s.tokens.cache_read_tokens
TotalTokensOf(s)   == s.tokens.total_tokens
TotalCostOf(s)     == s.costs.total_cost

\* _update_summary whose total_tokens leaves out the cache reads
UpdateSummaryNoCacheRead(data, t) ==
    LET sessions == data.sessions
    IN  [total_sessions |-> Len(sessions),
         total_input_tokens |-> SeqSum(SeqMap(InputOf, sessions)),
         total_output_tokens |-> SeqSum(SeqMap(OutputOf, sessions)),
         total_cache_creation_tokens |-> SeqSum(SeqMap(CacheCreationOf, sessions)),
         total_cache_read_tokens |-> SeqSum(SeqMap(CacheReadOf, sessions)),
         total_tokens |-> SeqSum(SeqMap(InputOf, sessions))
                          + SeqSum(SeqMap(OutputOf, sessions))
                          + SeqSum(SeqMap(CacheCreationOf, sessions)),
         total_cost_usd |-> Round(SeqSum(SeqMap(TotalCostOf, sessions)), 4),
         last_updated |-> t]

\* _update_summary that adds the new session's cost to the rounded total of
\* the previous summary
UpdateSummaryIncremental(data, t) ==
    LET sessions == data.sessions
        total_input          == SeqSum(SeqMap(InputOf, sessions))
        total_output         == SeqSum(SeqMap(OutputOf, sessions))
        total_cache_creation == SeqSum(SeqMap(CacheCreationOf, sessions))
        total_cache_read     == SeqSum(SeqMap(CacheReadOf, sessions))
    IN  [total_sessions |-> Len(sessions),
         total_input_tokens |-> total_input,
         total_output_tokens |-> total_output,
         total_cache_creation_tokens |-> total_cache_creation,
         total_cache_read_tokens |-> total_cache_read,
         total_tokens |-> total_input + total_output + total_cache_creation + total_cache_read,
         total_cost_usd |->
             Round(data.summary.total_cost_usd + TotalCostOf(sessions[Len(sessions)]), 4),
         last_updated |-> t]

\* TokenUsageTracker._update_summary at time t: the new summary (the caller
\* checks that every session has its fields; a KeyError otherwise)
UpdateSummary(data, t) ==
    LET sessions             == data.sessions
        total_input          == SeqSum(SeqMap(InputOf, sessions))
        total_output         == SeqSum(SeqMap(OutputOf, sessions))
        total_cache_creation == SeqSum(SeqMap(CacheCreationOf, sessions))
        total_cache_read     == SeqSum(SeqMap(CacheReadOf, sessions))
        total_cost           == SeqSum(SeqMap(TotalCostOf, sessions))
    IN  [total_sessions |-> Len(sessions),
         total_input_tokens |-> total_input,
         total_output_tokens |-> total_output,
         total_cache_creation_tokens |-> total_cache_creation,
         total_cache_read_tokens |-> total_cache_read,
         total_tokens |-> total_input + total_output + total_cache_creation + total_cache_read,
         total_cost_usd |-> Round(total_cost, 4),
         last_updated |-> t]

\* self.data["sessions"].append(session_record) with the record first
AppendSessionFirst(sessions, record) == <<record>> \o sessions

\* self.data["sessions"].append(session_record)
AppendSession(sessions, record) == Append(sessions, record)

\* The session record record_session builds at time t
SessionRecord(session_id, input, costs, t) ==
    [kind |-> "record",
     session_id |-> session_id,
     timestamp |-> t,
     session_type |-> input.session_type,
     model |-> input.model,
     duration_ms |-> input.duration_ms,
     num_turns |-> input.num_turns,
     tokens |-> [input_tokens |-> TokenGet(input.tokens.d, "input_tokens"),
                 output_tokens |-> TokenGet(input.tokens.d, "output_tokens"),
                 cache_creation_tokens |-> TokenGet(input.tokens.d, "cache_creation_tokens"),
                 cache_read_tokens |-> TokenGet(input.tokens.d, "cache_read_tokens"),
                 total_tokens |-> TokenGet(input.tokens.d, "input_tokens")
                                  + TokenGet(input.tokens.d, "output_tokens")
                                  + TokenGet(input.tokens.d, "cache_creation_tokens")
                                  + TokenGet(input.tokens.d, "cache_read_tokens")],
     costs |-> costs]

(***************************************************************************)
(* Bounds and the inputs the model draws from.                             *)
(***************************************************************************)
\* sessions a ledger may hold before record_session is no longer called
MaxSessions == 2
\* clock steps
MaxTicks == 2
\* truncations of the statistics file (simulated crashes of a writer)
MaxTruncations == 1

\* tokens of the statistics text that one buffer flush writes
ChunkTokens == 4

\* buffer flushes that write the text of the pricing cache
CacheChunks == 2
\* report directories under test-reports
MaxReports == 2
\* the largest --max-iterations, and the cap on the iterations of a run
\* without one
MaxIterations == 2

\* where a text is cut: to nothing, or before its last token
CutPoints(text) == {0, Len(text) - 1}

\* time.time() at the start, in seconds since the epoch, and the step of the clock
Epoch0 == 17 * Pow10(8)
TickSeconds == 12 * SECONDS_PER_HOUR

\* Feed entries and tables
SonnetEntry == Entry(Num(3, 0 - 6), Num(15, 0 - 6), Num(375, 0 - 8), Num(3, 0 - 7))
OpusEntry   == Entry(Num(5, 0 - 6), Num(25, 0 - 6), Num(625, 0 - 8), Num(5, 0 - 7))
PartEntry   == Entry(Num(3, 0 - 6), Num(15, 0 - 6), Missing, Missing)
NullEntry   == Entry(Num(3, 0 - 6), Null, Missing, Missing)

SonnetTable  == Table(BareId(SONNET45) :> SonnetEntry)
OpusTable    == Table(BareId(OPUS45) :> OpusEntry)
ProfileTable == Table((BareId(SONNET45) :> SonnetEntry) @@ (ProfileId(SONNET45) :> OpusEntry))
PartTable    == Table((BareId(SONNET45) :> NullEntry) @@ (ProviderId(SONNET45) :> PartEntry))
MessageTable == Table(<<"message">> :> StrEntry)
EmptyTable   == Table(NoKeys)

\* Token dicts: a dict without the cache keys, a full dict, and an argument
\* that is no dict
TokenDict(d) == [shape |-> "dict", d |-> d]
NotADict     == [shape |-> "list", d |-> [k \in {} |-> 0]]

RecordInput(type, model, ms, turns, tokens) ==
    [session_type |-> type, model |-> model, duration_ms |-> ms, num_turns |-> turns,
     tokens |-> tokens]

PlannerTokens == TokenDict([input_tokens |-> 10, output_tokens |-> 2])

RecordInputs ==
    { RecordInput("test_planner", BareId(SONNET45), 15000, 5, PlannerTokens),
      RecordInput("test_executor", ProfileId(SONNET45), 8500, 3,
                  TokenDict([input_tokens |-> 15, output_tokens |-> 1,
                             cache_creation_tokens |-> 1, cache_read_tokens |-> 1])),
      RecordInput("test_executor", BareId(SONNET45), 8500, 3, NotADict) }

(***************************************************************************)
(* The markdown report of CostReportGenerator.                             *)
(***************************************************************************)
\* f"{x:.0f}" of the quotient x / q: the nearest integer, ties to even
RoundDiv(x, q) ==
    LET lo   == x \div q
        rest == x % q
    IN  IF 2 * rest < q THEN lo
        ELSE IF 2 * rest > q THEN lo + 1
        ELSE IF lo % 2 = 0 THEN lo
        ELSE lo + 1

\* The report is a sequence of lines: a heading, or a row with a value.  A
\* row whose value is a quotient with divisor 0 is a ZeroDivisionError
\* (ok = FALSE).
Heading(title) == [kind |-> "heading", name |-> title, ok |-> TRUE, v |-> 0]
Row(name, v)   == [kind |-> "row", name |-> name, ok |-> TRUE, v |-> v]

\* a / b * scale of Python floats, to the nearest integer
QuotientRow(name, a, b, scale) ==
    IF b = 0 THEN [kind |-> "row", name |-> name, ok |-> FALSE, v |-> 0]
    ELSE [kind |-> "row", name |-> name, ok |-> TRUE, v |-> RoundDiv(a * scale, b)]

InputCostOf(s)         == s.costs.input_cost
OutputCostOf(s)        == s.costs.output_cost
CacheCreationCostOf(s) == s.costs.cache_creation_cost
CacheReadCostOf(s)     == s.costs.cache_read_cost
DurationMsOf(s)        == s.duration_ms

\* lines 606-615
ExecutiveSummary(summary) ==
    <<Heading("Executive Summary"),
      Row("Total Sessions", summary.total_sessions),
      Row("Total Tokens", summary.total_tokens),
      Row("Total Cost", summary.total_cost_usd)>>
    \o (IF summary.total_sessions > 0
        THEN <<QuotientRow("Average Cost per Session",
                           summary.total_cost_usd, summary.total_sessions, 1)>>
        ELSE <<>>)

\* the rows of the token table: the percentages of total_tokens (in tenths
\* of a percent) and the costs summed over the sessions
TokenRows(summary, sessions) ==
    <<QuotientRow("Input Tokens %", summary.total_input_tokens, summary.total_tokens, 1000),
      QuotientRow("Output Tokens %", summary.total_output_tokens, summary.total_tokens, 1000),
      QuotientRow("Cache Creation %", summary.total_cache_creation_tokens,
                  summary.total_tokens, 1000),
      QuotientRow("Cache Read %", summary.total_cache_read_tokens, summary.total_tokens, 1000),
      Row("Input Cost", SeqSum(SeqMap(InputCostOf, sessions))),
      Row("Output Cost", SeqSum(SeqMap(OutputCostOf, sessions))),
      Row("Cache Creation Cost", SeqSum(SeqMap(CacheCreationCostOf, sessions))),
      Row("Cache Read Cost", SeqSum(SeqMap(CacheReadCostOf, sessions))),
      Row("Total", summary.total_tokens)>>

\* the token table without the test of total_tokens
TokenUsageBreakdownUnguarded(summary, sessions) ==
    <<Heading("Token Usage Breakdown")>> \o TokenRows(summary, sessions)

\* lines 617-650
TokenUsageBreakdown(summary, sessions) ==
    <<Heading("Token Usage Breakdown")>>
    \o (IF summary.total_tokens > 0 THEN TokenRows(summary, sessions) ELSE <<>>)

\* lines 652-665: one row per session, duration_ms / 1000 in tenths of a second
SessionDetails(sessions) ==
    <<Heading("Session Details")>>
    \o [i \in 1..Len(sessions) |->
          QuotientRow("Session", sessions[i].duration_ms, 1000, 10)]

\* _generate_recommendations: cache efficiency, output tokens, session duration
GenerateRecommendations(summary, sessions) ==
    LET total_tokens == summary.total_tokens
        cache_read   == summary.total_cache_read_tokens
        output_cost  == SeqSum(SeqMap(OutputCostOf, sessions))
        total_cost   == summary.total_cost_usd
        cache ==
            IF total_tokens > 0 /\ cache_read > 0
            THEN <<QuotientRow("Prompt Caching Efficiency", cache_read, total_tokens, 1000)>>
            ELSE <<>>
        output_pct ==
            IF total_tokens > 0
            THEN <<QuotientRow("output_pct", summary.total_output_tokens, total_tokens, 1000)>>
            ELSE <<>>
        output_cost_pct ==
            IF total_tokens > 0 /\ total_cost > 0
            THEN <<QuotientRow("output_cost_pct", output_cost \div 100, total_cost \div 100,
                               1000)>>
            ELSE <<>>
        output ==
            IF output_cost_pct # <<>> /\ output_cost_pct[1].ok /\ output_cost_pct[1].v > 700
            THEN <<[output_cost_pct[1] EXCEPT !.name = "Output Token Optimization"]>>
            ELSE <<>>
        duration ==
            IF Len(sessions) > 1
            THEN <<QuotientRow("Session Duration", SeqSum(SeqMap(DurationMsOf, sessions)),
                               Len(sessions) * 1000, 10)>>
            ELSE <<>>
    IN  [rows |-> cache \o output \o duration,
         ok   |-> \A r \in {output_pct, output_cost_pct} : \A i \in 1..Len(r) : r[i].ok]

\* generate_markdown_report on a summary with its keys and sessions with
\* their fields: the lines, or the exception of a division by zero
MarkdownReport(summary, sessions) ==
    LET recs  == GenerateRecommendations(summary, sessions)
        lines == <<Heading("Cost Statistics Report")>>
                 \o ExecutiveSummary(summary)
                 \o TokenUsageBreakdown(summary, sessions)
                 \o SessionDetails(sessions)
                 \o <<Heading("Cost Optimization Recommendations")>>
                 \o recs.rows
                 \o <<Row("Note", 0)>>
    IN  IF recs.ok /\ \A i \in 1..Len(lines) : lines[i].ok
        THEN [outcome |-> "returned", lines |-> lines]
        ELSE [outcome |-> "raised", lines |-> <<>>]

(***************************************************************************)
(* The HTML report and the values update_html_report_cost_statistics       *)
(* writes into it.                                                         *)
(***************************************************************************)
\* The text of Test_Report_Viewer.html is a sequence of tokens: single
\* characters ("ch"), a mustache placeholder {{NAME}} ("ph"), the opening
\* <div class="cost-value"> ("open"), the closing </div>, white space and
\* <div class="cost-label">LABEL</div> that follow a value ("label"), and
\* any other markup or text ("text").
Ch(c)        == [t |-> "ch", v |-> c]
Ph(name)     == [t |-> "ph", v |-> name]
Open         == [t |-> "open", v |-> "cost-value"]
Label(label) == [t |-> "label", v |-> label]
Text(x)      == [t |-> "text", v |-> x]

Chars(s) == [i \in 1..Len(s) |-> Ch(s[i])]

DigitChars == <<"0", "1", "2", "3", "4", "5", "6", "7", "8", "9">>
DigitSet   == {DigitChars[i] : i \in 1..10}

\* str(n) of an integer
RECURSIVE NatStr(_)
NatStr(n) ==
    IF n < 10 THEN <<DigitChars[n + 1]>>
    ELSE NatStr(n \div 10) \o <<DigitChars[(n % 10) + 1]>>

IntStr(n) == IF n < 0 THEN <<"-">> \o NatStr(0 - n) ELSE NatStr(n)

\* n written with `width` digits, zeros first
RECURSIVE Padded(_, _)
Padded(n, width) ==
    IF width = 0 THEN <<>>
    ELSE Padded(n \div 10, width - 1) \o <<DigitChars[(n % 10) + 1]>>

\* f"{n:,}" of a natural number
RECURSIVE Grouped(_)
Grouped(n) ==
    IF n < 1000 THEN NatStr(n)
    ELSE Grouped(n \div 1000) \o <<",">> \o Padded(n % 1000, 3)

\* cost_str = f"${total_cost:.4f}", of a cost in cost units
CostStr(total_cost) ==
    LET r == Round(total_cost, 4) \div (CostUnit \div Pow10(4))
    IN  <<"$">> \o NatStr(r \div Pow10(4)) \o <<".">> \o Padded(r % Pow10(4), 4)

\* tokens_str = f"{total_tokens:,}"
TokensStr(total_tokens) == Grouped(total_tokens)

\* duration_str: minutes from one minute on, seconds below
DurationStr(total_duration_ms) ==
    IF total_duration_ms >= 60 * 1000
    THEN <<"~">> \o NatStr(RoundDiv(total_duration_ms, 60 * 1000)) \o <<"m", "i", "n">>
    ELSE <<"~">> \o NatStr(RoundDiv(total_duration_ms, 1000)) \o <<"s">>

\* sessions_str = str(total_sessions)
SessionsStr(total_sessions) == IntStr(total_sessions)

\* re.IGNORECASE on the letters the value patterns name
Fold(c) ==
    CASE c = "K" -> "k" [] c = "N" -> "n" [] c = "A" -> "a"
      [] c = "M" -> "m" [] c = "I" -> "i" [] c = "S" -> "s"
      [] OTHER -> c

FoldAll(span) == [i \in 1..Len(span) |-> Fold(span[i].v)]

\* a span of character tokens, all of them in `set`, at least one
Run(span, set) ==
    /\ Len(span) >= 1
    /\ \A i \in 1..Len(span) : span[i].t = "ch" /\ span[i].v \in set

AllChars(span) == \A i \in 1..Len(span) : span[i].t = "ch"

\* the span without an optional leading "~"
SkipTilde(span) == IF span # <<>> /\ span[1] = Ch("~") THEN Tail(span) ELSE span

\* the span ends with the letters of `suffix` (case ignored)
EndsWith(span, suffix) ==
    /\ Len(span) >= Len(suffix)
    /\ FoldAll(SubSeq(span, Len(span) - Len(suffix) + 1, Len(span))) = suffix

DropLast(span, n) == SubSeq(span, 1, Len(span) - n)

IsNA(span) == AllChars(span) /\ FoldAll(span) = <<"n", "/", "a">>

\* The value patterns of default_replacements, matched against the whole
\* text between <div class="cost-value"> and the label:
\*   Total Cost    \$[\d.,]+
\*   Total Tokens  (?:~?[\d,]+K?|N/A)
\*   Duration      (?:~?[\d.]+(?:min|s)|N/A)
\*   Sessions      \d+
ValueMatches(label, span) ==
    CASE label = "Total Cost" ->
           span # <<>> /\ span[1] = Ch("$") /\ Run(Tail(span), DigitSet \cup {".", ","})
      [] label = "Total Tokens" ->
           \/ IsNA(span)
           \/ /\ AllChars(span)
              /\ LET body == SkipTilde(span)
                 IN  \/ Run(body, DigitSet \cup {","})
                     \/ EndsWith(body, <<"k">>) /\ Run(DropLast(body, 1), DigitSet \cup {","})
      [] label = "Duration" ->
           \/ IsNA(span)
           \/ /\ AllChars(span)
              /\ LET body == SkipTilde(span)
                 IN  \/ EndsWith(body, <<"m", "i", "n">>)
                        /\ Run(DropLast(body, 3), DigitSet \cup {"."})
                     \/ EndsWith(body, <<"s">>) /\ Run(DropLast(body, 1), DigitSet \cup {"."})
      [] label = "Sessions" -> Run(span, DigitSet)
      [] OTHER -> FALSE

\* the first token after position i that is no character; Len + 1 if none
NextMarkup(doc, i) ==
    IF \E j \in (i + 1)..Len(doc) : doc[j].t # "ch"
    THEN CHOOSE j \in (i + 1)..Len(doc) :
            doc[j].t # "ch" /\ \A k \in (i + 1)..(j - 1) : doc[k].t = "ch"
    ELSE Len(doc) + 1

\* a default pattern that does not look at the text of the label
SlotAtAnyLabel(doc, i, label) ==
    /\ doc[i] = Open
    /\ NextMarkup(doc, i) <= Len(doc)
    /\ doc[NextMarkup(doc, i)].t = "label"
    /\ ValueMatches(label, SubSeq(doc, i + 1, NextMarkup(doc, i) - 1))

\* a default pattern matches at position i: the opening div, a value of the
\* label's form, the label
SlotAt(doc, i, label) ==
    /\ doc[i] = Open
    /\ NextMarkup(doc, i) <= Len(doc)
    /\ doc[NextMarkup(doc, i)] = Label(label)
    /\ ValueMatches(label, SubSeq(doc, i + 1, NextMarkup(doc, i) - 1))

\* re.search of a default pattern
HasSlot(doc, label) == \E i \in 1..Len(doc) : SlotAt(doc, i, label)

\* re.sub of a default pattern with \g<1>value\g<2>, from position i on
RECURSIVE SubSlotFrom(_, _, _, _)
SubSlotFrom(doc, i, label, value) ==
    IF i > Len(doc) THEN <<>>
    ELSE IF SlotAt(doc, i, label)
    THEN <<doc[i]>> \o Chars(value) \o SubSlotFrom(doc, NextMarkup(doc, i), label, value)
    ELSE <<doc[i]>> \o SubSlotFrom(doc, i + 1, label, value)

\* re.search and re.sub of a placeholder pattern
HasPlaceholder(doc, name) == \E i \in 1..Len(doc) : doc[i] = Ph(name)

RECURSIVE SubPlaceholder(_, _, _)
SubPlaceholder(doc, name, value) ==
    IF doc = <<>> THEN <<>>
    ELSE (IF Head(doc) = Ph(name) THEN Chars(value) ELSE <<Head(doc)>>)
         \o SubPlaceholder(Tail(doc), name, value)

\* the four values, by placeholder name and by label
PlaceholderNames == <<"TOTAL_COST", "TOTAL_TOKENS", "DURATION", "SESSIONS">>
SlotLabels       == <<"Total Cost", "Total Tokens", "Duration", "Sessions">>

\* summary.get(key, 0) and s.get("duration_ms", 0); a summary and a session
\* are records, {} has no key
DurationOf(s) == IF "duration_ms" \in DOMAIN s THEN s.duration_ms ELSE 0

ReplacementValues(summary, sessions) ==
    <<CostStr(summary.total_cost_usd),
      TokensStr(summary.total_tokens),
      DurationStr(SeqSum([i \in 1..Len(sessions) |-> DurationOf(sessions[i])])),
      SessionsStr(summary.total_sessions)>>

\* one pass of the loop over `replacements`: re.search, then re.sub
ReplacePlaceholder(st, values, k) ==
    CHOOSE r \in {IF HasPlaceholder(s.doc, PlaceholderNames[k])
                  THEN [doc |-> SubPlaceholder(s.doc, PlaceholderNames[k], values[k]),
                        updated |-> TRUE]
                  ELSE s : s \in {st}} : TRUE

\* one pass of the loop over `default_replacements`: re.search, then re.sub
ReplaceDefault(st, values, k) ==
    CHOOSE r \in {IF HasSlot(s.doc, SlotLabels[k])
                  THEN [doc |-> SubSlotFrom(s.doc, 1, SlotLabels[k], values[k]),
                        updated |-> TRUE]
                  ELSE s : s \in {st}} : TRUE

\* html_content after the two loops over the patterns, and `updated`
PatchWith(doc, values) ==
    ReplaceDefault(ReplaceDefault(ReplaceDefault(ReplaceDefault(
      ReplacePlaceholder(ReplacePlaceholder(ReplacePlaceholder(ReplacePlaceholder(
        [doc |-> doc, updated |-> FALSE],
        values, 1), values, 2), values, 3), values, 4),
      values, 1), values, 2), values, 3), values, 4)

PatchHtml(doc, summary, sessions) ==
    CHOOSE r \in {PatchWith(doc, values) : values \in {ReplacementValues(summary, sessions)}} :
       TRUE

\* Test_Report_Viewer.html of a report directory: absent, or present with a text
HtmlAbsent    == [kind |-> "absent", doc |-> <<>>]
HtmlFile(doc) == [kind |-> "html", doc |-> doc]

\* test-reports: absent, or a directory whose entries sorted(glob("*"),
\* key=mtime) lists oldest first
NoReports        == [dir |-> FALSE, entries |-> <<>>]
Reports(entries) == [dir |-> TRUE, entries |-> entries]

(***************************************************************************)
(* State.                                                                  *)
(***************************************************************************)
VARIABLES
    now,          \* the clock: time.time() / datetime.utcnow(), in seconds
    cache_file,   \* the pricing cache file litellm_pricing_cache.json
    last,         \* the most recent get_rates call: its inputs and its result
    pc,           \* the tracker: "none" (no process), "idle", or a step of save_to_file
    data,         \* TokenUsageTracker.data
    origin,       \* what _load_or_initialize found when this tracker was constructed
    stats_file,   \* usage_statistics.json
    tmp_file,     \* usage_statistics.tmp
    rs,           \* the most recent record_session call of this tracker
    truncs,       \* truncations of the statistics file so far
    view,         \* the most recent read of this tracker and what it returned
    upd,          \* a running update_price_cache: its position and what it holds
    cache_tmp,    \* litellm_pricing_cache.tmp
    cost,         \* the most recent calculate_cost call: its inputs and its result
    reports,      \* the test-reports directory: its entries, oldest first
    patch,        \* the most recent update_html_report_cost_statistics call
    report,       \* the most recent generate_markdown_report call and its result
    race,         \* two more tracker processes of the same project directory
    run           \* the harness process: main and run_autonomous_testing_agent

vars == <<now, cache_file, last, pc, data, origin, stats_file, tmp_file, rs, truncs,
          view, upd, cache_tmp, cost, reports, patch, report, race, run>>

\* the state outside the pricing calculator and the tracker
extVars     == <<reports, patch, report, race, run>>

calcVars    == <<upd, cache_tmp, cost>>
pricingVars == <<cache_file, last, upd, cache_tmp, cost>>
ledgerVars  == <<pc, data, origin, stats_file, tmp_file, rs, truncs, view>>

NoCall == [called |-> FALSE, model |-> <<>>, fetch |-> NetworkError, write_ok |-> TRUE,
           before |-> CacheAbsent, t |-> 0,
           outcome |-> "none", rates |-> NoRates, trace |-> <<>>]

CallLog(model, fetch, write_ok, before, t, r) ==
    [called |-> TRUE, model |-> model, fetch |-> fetch, write_ok |-> write_ok,
     before |-> before, t |-> t,
     outcome |-> r.outcome, rates |-> r.rates, trace |-> r.trace]

NoRecord == [status |-> "none", renames |-> 0, io_failed |-> FALSE, before |-> "absent"]

\* What a reader finds in a file: no file, a text json.load rejects, or a value
Readable(file) ==
    IF file.kind = "absent" THEN "absent"
    ELSE IF JsonLoad(file.text).ok THEN "value" ELSE "unparseable"

\* What a crashed or not yet started process holds
NoData == EmptyLedger(0)

\* A read of the tracker: the operation, whether it returned or raised, and
\* the summary and the sessions it returned (for the report: rendered)
NoView == [op |-> "none", outcome |-> "none", summary |-> EmptySummary(0), sessions |-> <<>>]
View(op, outcome, summary, sessions) ==
    [op |-> op, outcome |-> outcome, summary |-> summary, sessions |-> sessions]

\* update_price_cache at rest; the temporary file of the cache, absent
NoUpdate == [pc |-> "idle", pricing |-> NoneValue, t |-> 0, result |-> "none"]
NoCacheTmp == [kind |-> "absent", env |-> CacheAbsent, written |-> 0]

NoCost == [called |-> FALSE, tokens |-> NotADict, model |-> <<>>, outcome |-> "none",
           rates |-> NoRates, costs |-> NoCosts]

\* generate_markdown_report not called yet
NoReport == [called |-> FALSE, origin |-> "none", outcome |-> "none", lines |-> <<>>]

\* A tracker process of the two-writer scenario: its position, its
\* self.data, where the file it has open for writing is now ("tmp": still
\* named usage_statistics.tmp, "stats": renamed to usage_statistics.json by
\* the other process, "orphan": replaced since), its offset in that file, and
\* how its record_session calls went
NoWriter == [pc |-> "none", data |-> NoData, fd |-> "none", off |-> 0,
             returned |-> 0, raised |-> FALSE, io_failed |-> FALSE]

Writers == {1, 2}

\* no such processes; dumped is the set of texts a writer has serialized
NoRace == [w |-> [i \in Writers |-> NoWriter], dumped |-> {}]

\* sys.exit not reached
NoExit == 0 - 1

\* test_cases.json: absent, or the status of each test case
NoTestCases == [kind |-> "absent", cases |-> <<>>]

\* The harness process.  pc is its position; max_iterations = 0 is None;
\* status and usage_data are what run_agent_session returned; client is the
\* state of this iteration's ClaudeSDKClient; test_cases is test_cases.json;
\* started counts the sessions begun and before the ledger's sessions when
\* the iteration began; ended says why the loop was left.
NoRun == [pc |-> "off", max_iterations |-> 0, iteration |-> 0, is_first_run |-> FALSE,
          all_tests_blocked |-> FALSE, status |-> "none", usage_data |-> "none",
          client |-> "none", test_cases |-> NoTestCases, started |-> 0, before |-> 0,
          ended |-> "none", raised_in |-> "none", report |-> "none", html |-> "none",
          exit_code |-> NoExit]

\* update_html_report_cost_statistics not called since the reports changed
NoPatch == [called |-> FALSE, result |-> "none", stats |-> Absent, stats_readable |-> TRUE,
            html_readable |-> TRUE, before |-> NoReports]

\* no test-reports directory and no patcher call
ExtIdle ==
    reports = NoReports /\ patch = NoPatch /\ report = NoReport /\ race = NoRace /\ run = NoRun

(***************************************************************************)
(* Actions.                                                                *)
(***************************************************************************)
\* The clock advances (between calls)
Tick ==
    /\ now < Epoch0 + MaxTicks * TickSeconds
    /\ now' = now + TickSeconds
    /\ UNCHANGED <<pricingVars, ledgerVars, extVars>>

\* A direct call of PricingCalculator.get_rates(model)
GetRatesCall(model, fetch, write_ok) ==
    LET r == GetRates(cache_file, now, model, fetch, write_ok)
    IN  /\ cache_file' = r.cache
        /\ last' = CallLog(model, fetch, write_ok, cache_file, now, r)
        /\ UNCHANGED <<now, ledgerVars, calcVars, extVars>>

\* TokenUsageTracker.__init__
Construct(readable) ==
    /\ pc = "none"
    /\ readable \/ stats_file.kind = "text"
    /\ data' = LoadOrInitialize(stats_file, readable, now)
    /\ origin' = IF stats_file.kind = "absent" THEN "absent"
                 ELSE IF ~readable THEN "unreadable"
                 ELSE IF ~JsonLoad(stats_file.text).ok THEN "unparseable"
                 ELSE IF JsonLoad(stats_file.text).data.shape # "ledger" THEN "wrong_shape"
                 ELSE "ledger"
    /\ pc' = "idle"
    /\ rs' = NoRecord
    /\ view' = NoView
    /\ UNCHANGED <<now, pricingVars, stats_file, tmp_file, truncs, extVars>>

\* TokenUsageTracker.record_session up to the call of save_to_file: costs,
\* the record, the append and _update_summary.  An exception leaves the call
\* ("raised"); otherwise save_to_file starts.
RecordSession(input, fetch, write_ok) ==
    /\ pc = "idle"
    /\ Len(data.sessions) < MaxSessions
    /\ LET r        == GetRates(cache_file, now, input.model, fetch, write_ok)
           raised   == [NoRecord EXCEPT !.status = "raised", !.before = Readable(stats_file)]
           costs    == CostBreakdown(input.tokens.d, r.rates)
           record   == SessionRecord(Len(data.sessions) + 1, input, costs, now)
           appended == [data EXCEPT !.sessions = AppendSession(data.sessions, record)]
       IN  /\ cache_file' = r.cache
           /\ last' = CallLog(input.model, fetch, write_ok, cache_file, now, r)
           /\ IF \/ r.outcome = "raised"               \* get_rates raised
                 \/ input.tokens.shape # "dict"        \* tokens.get: AttributeError
                 \/ data.shape # "ledger"              \* self.data["sessions"]: TypeError, KeyError
              THEN /\ rs' = raised
                   /\ UNCHANGED <<pc, data, extVars>>
              ELSE IF \E i \in 1..Len(appended.sessions) : ~HasFields(appended.sessions[i])
              THEN /\ rs' = raised                     \* _update_summary: KeyError
                   /\ data' = appended
                   /\ UNCHANGED pc
              ELSE /\ data' = [appended EXCEPT !.summary = UpdateSummary(appended, now)]
                   /\ rs' = [NoRecord EXCEPT !.status = "running", !.before = Readable(stats_file)]
                   /\ pc' = "save_open"
    /\ view' = NoView
    /\ UNCHANGED <<now, origin, stats_file, tmp_file, truncs, calcVars, extVars>>

\* save_to_file that opens the statistics file itself for writing
SaveOpenInPlace ==
    /\ pc = "save_open"
    /\ stats_file' = File(<<>>)
    /\ pc' = "save_write"
    /\ UNCHANGED <<now, pricingVars, data, origin, tmp_file, rs, truncs, view, extVars>>

\* save_to_file: open(temp_file, "w") creates or empties the temporary file
SaveOpen ==
    /\ pc = "save_open"
    /\ tmp_file' = File(<<>>)
    /\ pc' = "save_write"
    /\ UNCHANGED <<now, pricingVars, data, origin, stats_file, rs, truncs, view, extVars>>

\* save_to_file: json.dump writes the text, which reaches the file one
\* buffer of ChunkTokens tokens at a time; the file is closed when the text
\* is complete
SaveWrite ==
    /\ pc = "save_write"
    /\ LET text    == Dump(data)
           written == IF Len(tmp_file.text) + ChunkTokens < Len(text)
                      THEN Len(tmp_file.text) + ChunkTokens ELSE Len(text)
       IN  /\ tmp_file' = File(Prefix(text, written))
           /\ pc' = IF written = Len(text) THEN "save_rename" ELSE "save_write"
    /\ UNCHANGED <<now, pricingVars, data, origin, stats_file, rs, truncs, view, extVars>>

\* a rename that does not replace an existing statistics file
SaveRenameNoReplace ==
    /\ pc = "save_rename"
    /\ stats_file' = IF stats_file.kind = "absent" THEN tmp_file ELSE stats_file
    /\ tmp_file' = Absent
    /\ rs' = [rs EXCEPT !.status = "returned", !.renames = rs.renames + 1]
    /\ pc' = "idle"
    /\ UNCHANGED <<now, pricingVars, data, origin, truncs, view, extVars>>

\* save_to_file: temp_file.rename(self.stats_file); record_session returns
SaveRename ==
    /\ pc = "save_rename"
    /\ stats_file' = tmp_file
    /\ tmp_file' = Absent
    /\ rs' = [rs EXCEPT !.status = "returned", !.renames = rs.renames + 1]
    /\ pc' = "idle"
    /\ UNCHANGED <<now, pricingVars, data, origin, truncs, view, extVars>>

\* save_to_file: an IOError of open, write or rename; it is caught and
\* printed, and record_session returns
SaveIOError ==
    /\ pc \in {"save_open", "save_write", "save_rename"}
    /\ rs' = [rs EXCEPT !.status = "returned", !.io_failed = TRUE]
    /\ pc' = "idle"
    /\ UNCHANGED <<now, pricingVars, data, origin, stats_file, tmp_file, truncs, view, extVars>>

\* The process dies; the files stay as they are
Crash ==
    /\ pc # "none"
    /\ pc' = "none"
    /\ data' = NoData
    /\ origin' = "none"
    /\ rs' = NoRecord
    /\ last' = NoCall
    /\ view' = NoView
    /\ UNCHANGED <<now, cache_file, stats_file, tmp_file, truncs, calcVars, extVars>>

\* The statistics file is cut to its first k tokens (a writer that died
\* mid-write), while no call of the tracker is running
Truncate(k) ==
    /\ pc \in {"none", "idle"}
    /\ truncs < MaxTruncations
    /\ stats_file.kind = "text"
    /\ k < Len(stats_file.text)
    /\ stats_file' = File(Prefix(stats_file.text, k))
    /\ truncs' = truncs + 1
    /\ rs' = NoRecord
    /\ view' = NoView
    /\ UNCHANGED <<now, pricingVars, pc, data, origin, tmp_file, extVars>>

\* PricingCalculator.calculate_cost(tokens, model): get_rates, then the
\* arithmetic; tokens that is no dict is an AttributeError of tokens.get
CalculateCostCall(tokens, model, fetch, write_ok) ==
    LET r == GetRates(cache_file, now, model, fetch, write_ok)
    IN  /\ cache_file' = r.cache
        /\ last' = CallLog(model, fetch, write_ok, cache_file, now, r)
        /\ cost' = IF r.outcome = "raised" \/ tokens.shape # "dict"
                   THEN [called |-> TRUE, tokens |-> tokens, model |-> model,
                         outcome |-> "raised", rates |-> r.rates, costs |-> NoCosts]
                   ELSE [called |-> TRUE, tokens |-> tokens, model |-> model,
                         outcome |-> "returned", rates |-> r.rates,
                         costs |-> CostBreakdown(tokens.d, r.rates)]
        /\ UNCHANGED <<now, ledgerVars, upd, cache_tmp, extVars>>

\* What a reader of the temporary cache file finds: the envelope when the
\* text is complete, text that is no JSON otherwise
TmpContent(tmp) == IF tmp.written = CacheChunks THEN tmp.env ELSE CacheGarbage

\* update_price_cache, step by step.  The fetch and the metadata:
\* fetch_latest_prices, "if not pricing_data: return False", time.time()
UpdateStart(fetch) ==
    /\ upd.pc = "idle"
    /\ LET pricing_data == FetchLatestPrices(fetch)
       IN  upd' = IF ~Truthy(pricing_data)
                  THEN [pc |-> "idle", pricing |-> NoneValue, t |-> 0, result |-> "false"]
                  ELSE [pc |-> "open", pricing |-> pricing_data, t |-> now, result |-> "none"]
    /\ UNCHANGED <<now, cache_file, last, cache_tmp, cost, ledgerVars, extVars>>

\* update_price_cache that opens the cache file itself for writing
UpdateOpenInPlace ==
    /\ upd.pc = "open"
    /\ cache_file' = CacheGarbage
    /\ upd' = [upd EXCEPT !.pc = "write"]
    /\ UNCHANGED <<now, last, cache_tmp, cost, ledgerVars, extVars>>

\* mkdir and open(temp_file, "w"): the temporary file exists and is empty
UpdateOpen ==
    /\ upd.pc = "open"
    /\ cache_tmp' = [kind |-> "text", env |-> Envelope(upd.t, upd.pricing), written |-> 0]
    /\ upd' = [upd EXCEPT !.pc = "write"]
    /\ UNCHANGED <<now, cache_file, last, cost, ledgerVars, extVars>>

\* json.dump(cache_data, f, indent=2): one buffer reaches the temporary file;
\* the file is closed when the text is complete
UpdateWrite ==
    /\ upd.pc = "write"
    /\ cache_tmp' = [cache_tmp EXCEPT !.kind = "text", !.written = cache_tmp.written + 1]
    /\ upd' = [upd EXCEPT !.pc = IF cache_tmp.written + 1 >= CacheChunks
                                 THEN "rename" ELSE "write"]
    /\ UNCHANGED <<now, cache_file, last, cost, ledgerVars, extVars>>

\* temp_file.rename(self.cache_file); return True
UpdateRename ==
    /\ upd.pc = "rename"
    /\ cache_file' = TmpContent(cache_tmp)
    /\ cache_tmp' = NoCacheTmp
    /\ upd' = [upd EXCEPT !.pc = "idle", !.result = "true"]
    /\ UNCHANGED <<now, last, cost, ledgerVars, extVars>>

\* an IOError of mkdir, open, json.dump or rename: caught, return False
UpdateIOError ==
    /\ upd.pc \in {"open", "write", "rename"}
    /\ upd' = [upd EXCEPT !.pc = "idle", !.result = "false"]
    /\ UNCHANGED <<now, cache_file, last, cache_tmp, cost, ledgerVars, extVars>>

\* The process dies inside update_price_cache; the files stay as they are
UpdateCrash ==
    /\ upd.pc # "idle"
    /\ upd' = NoUpdate
    /\ UNCHANGED <<now, cache_file, last, cache_tmp, cost, ledgerVars, extVars>>

\* The three reads leave everything but the view as it is
ReadFrame == UNCHANGED <<now, pricingVars, pc, data, origin, stats_file, tmp_file, rs, truncs, extVars>>

\* get_summary that recomputes the summary and saves it before returning it
GetSummaryRefreshing ==
    /\ pc = "idle"
    /\ data.shape = "ledger"
    /\ data' = [data EXCEPT !.summary = UpdateSummary(data, now)]
    /\ stats_file' = File(Dump(data'))
    /\ view' = View("get_summary", "returned", data'.summary, <<>>)
    /\ UNCHANGED <<now, pricingVars, pc, origin, tmp_file, rs, truncs, extVars>>

\* TokenUsageTracker.get_summary: self.data.get("summary", {})
GetSummary ==
    /\ pc = "idle"
    /\ view' = CASE data.shape = "list"   -> View("get_summary", "raised", EmptySummary(0), <<>>)
                  [] data.shape = "object" -> View("get_summary", "default", EmptySummary(0), <<>>)
                  [] OTHER                 -> View("get_summary", "returned", data.summary, <<>>)
    /\ ReadFrame

\* TokenUsageTracker.get_session_history: self.data.get("sessions", [])
GetSessionHistory ==
    /\ pc = "idle"
    /\ view' = CASE data.shape = "list"   ->
                       View("get_session_history", "raised", EmptySummary(0), <<>>)
                  [] data.shape = "object" ->
                       View("get_session_history", "default", EmptySummary(0), <<>>)
                  [] OTHER ->
                       View("get_session_history", "returned", EmptySummary(0), data.sessions)
    /\ ReadFrame

\* CostReportGenerator.generate_markdown_report: the report is built from
\* get_summary() and get_session_history() and returned as a string; a
\* summary without its keys is a KeyError, data that is a list an
\* AttributeError
GenerateMarkdownReport ==
    /\ pc = "idle"
    /\ LET r == IF data.shape = "ledger"
                  /\ \A i \in 1..Len(data.sessions) : HasFields(data.sessions[i])
                THEN MarkdownReport(data.summary, data.sessions)
                ELSE [outcome |-> "raised", lines |-> <<>>]
       IN  /\ view' = IF r.outcome = "returned"
                      THEN View("generate_markdown_report", "returned", data.summary,
                                data.sessions)
                      ELSE View("generate_markdown_report", "raised", EmptySummary(0), <<>>)
           /\ report' = [called |-> TRUE, origin |-> origin, outcome |-> r.outcome,
                         lines |-> r.lines]
    /\ UNCHANGED <<now, pricingVars, pc, data, origin, stats_file, tmp_file, rs, truncs,
                   reports, patch, race, run>>

(***************************************************************************)
(* Specifications.                                                         *)
(***************************************************************************)
\* Spec: one project directory, its tracker process (which may die and be
\* started again) and the pricing chain behind record_session.
LedgerCaches  == {CacheAbsent}
LedgerFetches == {NetworkError}
\* A statistics file that parses to a ledger but was not left by save_to_file
\* of this version: one session, and a summary that still counts none.
ForeignRecord ==
    SessionRecord(1, RecordInput("test_planner", BareId(SONNET45), 15000, 5, PlannerTokens),
                  CostBreakdown(PlannerTokens.d, FALLBACK_PRICING[BareId(SONNET45)]), Epoch0)
StaleSummaryFile == File(Dump(Ledger(<<ForeignRecord>>, EmptySummary(Epoch0))))

InitStatsFiles ==
    {Absent, GarbageFile, File(Dump(ListData)), File(Dump(ObjectData)), StaleSummaryFile}

Init ==
    /\ now = Epoch0
    /\ cache_file \in LedgerCaches
    /\ last = NoCall
    /\ pc = "none"
    /\ data = NoData
    /\ origin = "none"
    /\ stats_file \in InitStatsFiles
    /\ tmp_file = Absent
    /\ rs = NoRecord
    /\ truncs = 0
    /\ view = NoView
    /\ upd = NoUpdate
    /\ cache_tmp = NoCacheTmp
    /\ cost = NoCost
    /\ ExtIdle

Next ==
    \/ \E readable \in BOOLEAN : Construct(readable)
    \/ \E input \in RecordInputs, fetch \in LedgerFetches :
          RecordSession(input, fetch, TRUE)
    \/ SaveOpen
    \/ SaveWrite
    \/ SaveRename
    \/ SaveIOError
    \/ Crash
    \/ \E k \in CutPoints(stats_file.text) : Truncate(k)

Spec == Init /\ [][Next]_vars

\* SpecReads: a tracker over an existing or absent statistics file, the
\* reads of it (before and between record_session calls) and the clock.
ReadStatsFiles == {Absent, File(Dump(ObjectData)), StaleSummaryFile}
\* a planner session, one of a single token (whose cost rounds to 0) and a
\* call with tokens that are no dict
ReadInputs ==
    { RecordInput("test_planner", BareId(SONNET45), 15000, 5, PlannerTokens),
      RecordInput("test_executor", BareId(SONNET45), 500, 1, TokenDict([input_tokens |-> 1])),
      RecordInput("test_executor", BareId(SONNET45), 8500, 3, NotADict) }

InitReads ==
    /\ now = Epoch0
    /\ cache_file \in LedgerCaches
    /\ last = NoCall
    /\ pc = "none"
    /\ data = NoData
    /\ origin = "none"
    /\ stats_file \in ReadStatsFiles
    /\ tmp_file = Absent
    /\ rs = NoRecord
    /\ truncs = 0
    /\ view = NoView
    /\ upd = NoUpdate
    /\ cache_tmp = NoCacheTmp
    /\ cost = NoCost
    /\ ExtIdle

NextReads ==
    \/ Tick
    \/ Construct(TRUE)
    \/ GetSummary
    \/ GetSessionHistory
    \/ GenerateMarkdownReport
    \/ \E input \in ReadInputs, fetch \in LedgerFetches :
          RecordSession(input, fetch, TRUE)
    \/ SaveOpen
    \/ SaveWrite
    \/ SaveRename
    \/ Crash

SpecReads == InitReads /\ [][NextReads]_vars

\* SpecPricing: the pricing chain alone, get_rates called on every cache
\* state with every fetch outcome.
StaleAt == Epoch0 - 2 * DEFAULT_CACHE_VALIDITY_HOURS * SECONDS_PER_HOUR
PricingValues  == {NoneValue, ListValue, SonnetTable, OpusTable, ProfileTable, PartTable}
PricingCaches  ==
    {CacheAbsent, CacheGarbage, CacheList}
    \cup {Envelope(at, p) : at \in {NoFetchedAt, StaleAt, Epoch0}, p \in PricingValues}
PricingFetches ==
    {NetworkError, NonJson, JsonBody(EmptyTable), JsonBody(ListValue),
     JsonBody(MessageTable), JsonBody(SonnetTable), JsonBody(OpusTable)}
PricingModels  ==
    {BareId(SONNET45), ProfileId(SONNET45), ProviderId(SONNET45), ProfileId(OPUS45),
     UnknownId}

InitPricing ==
    /\ now = Epoch0
    /\ cache_file \in PricingCaches
    /\ last = NoCall
    /\ pc = "none"
    /\ data = NoData
    /\ origin = "none"
    /\ stats_file = Absent
    /\ tmp_file = Absent
    /\ rs = NoRecord
    /\ truncs = 0
    /\ view = NoView
    /\ upd = NoUpdate
    /\ cache_tmp = NoCacheTmp
    /\ cost = NoCost
    /\ ExtIdle

NextPricing ==
    \/ Tick
    \/ \E model \in PricingModels, fetch \in PricingFetches, write_ok \in BOOLEAN :
          GetRatesCall(model, fetch, write_ok)

SpecPricing == InitPricing /\ [][NextPricing]_vars

\* SpecCacheWrite: update_price_cache step by step, with I/O errors and
\* crashes between its steps, while the clock runs.
CacheWriteCaches  == {CacheAbsent, CacheGarbage, Envelope(StaleAt, SonnetTable)}
CacheWriteFetches == {NetworkError, JsonBody(EmptyTable), JsonBody(SonnetTable),
                      JsonBody(OpusTable), JsonBody(MessageTable), JsonBody(ListValue)}

InitCacheWrite ==
    /\ now = Epoch0
    /\ cache_file \in CacheWriteCaches
    /\ last = NoCall
    /\ pc = "none"
    /\ data = NoData
    /\ origin = "none"
    /\ stats_file = Absent
    /\ tmp_file = Absent
    /\ rs = NoRecord
    /\ truncs = 0
    /\ view = NoView
    /\ upd = NoUpdate
    /\ cache_tmp = NoCacheTmp
    /\ cost = NoCost
    /\ ExtIdle

NextCacheWrite ==
    \/ Tick
    \/ \E fetch \in CacheWriteFetches : UpdateStart(fetch)
    \/ UpdateOpen
    \/ UpdateWrite
    \/ UpdateRename
    \/ UpdateIOError
    \/ UpdateCrash

SpecCacheWrite == InitCacheWrite /\ [][NextCacheWrite]_vars

\* SpecCost: calculate_cost on token dicts with every set of keys, for
\* models that resolve to different rates.
ExampleTokens == TokenDict([input_tokens |-> 1000, output_tokens |-> 2000,
                            cache_creation_tokens |-> 500, cache_read_tokens |-> 800])
CostCounts == {1, 3, 7}
CostTokenDicts ==
    {ExampleTokens, NotADict}
    \cup {TokenDict([k \in keys |-> c]) : keys \in SUBSET TokenKeys, c \in CostCounts}
CostModels == {BareId(SONNET45), ProviderId(SONNET45), ProviderId(HAIKU35), UnknownId}
CostCaches == {CacheAbsent, Envelope(Epoch0, PartTable)}

InitCost ==
    /\ now = Epoch0
    /\ cache_file \in CostCaches
    /\ last = NoCall
    /\ pc = "none"
    /\ data = NoData
    /\ origin = "none"
    /\ stats_file = Absent
    /\ tmp_file = Absent
    /\ rs = NoRecord
    /\ truncs = 0
    /\ view = NoView
    /\ upd = NoUpdate
    /\ cache_tmp = NoCacheTmp
    /\ cost = NoCost
    /\ ExtIdle

NextCost ==
    \E tokens \in CostTokenDicts, model \in CostModels :
       CalculateCostCall(tokens, model, NetworkError, TRUE)

SpecCost == InitCost /\ [][NextCost]_vars

\* SpecCostIO: calculate_cost while the clock advances, the cache file ages
\* and the price feed answers or not.
CostIOTokens  == {ExampleTokens, TokenDict([cache_creation_tokens |-> 7])}
CostIOModels  == {ProviderId(SONNET45), UnknownId}
CostIOCaches  == {CacheAbsent, Envelope(Epoch0, PartTable), Envelope(StaleAt, SonnetTable)}
CostIOFetches == {NetworkError, JsonBody(PartTable), JsonBody(OpusTable)}

InitCostIO ==
    /\ now = Epoch0
    /\ cache_file \in CostIOCaches
    /\ last = NoCall
    /\ pc = "none"
    /\ data = NoData
    /\ origin = "none"
    /\ stats_file = Absent
    /\ tmp_file = Absent
    /\ rs = NoRecord
    /\ truncs = 0
    /\ view = NoView
    /\ upd = NoUpdate
    /\ cache_tmp = NoCacheTmp
    /\ cost = NoCost
    /\ ExtIdle

NextCostIO ==
    \/ Tick
    \/ \E tokens \in CostIOTokens, model \in CostIOModels, fetch \in CostIOFetches,
          write_ok \in BOOLEAN :
          CalculateCostCall(tokens, model, fetch, write_ok)

SpecCostIO == InitCostIO /\ [][NextCostIO]_vars

\* Ledgers a project directory can hold: of one session, and of two with
\* more than a minute and more than a thousand tokens
ExampleRecord ==
    SessionRecord(1, RecordInput("test_planner", BareId(SONNET45), 90000, 5, ExampleTokens),
                  CostBreakdown(ExampleTokens.d, FALLBACK_PRICING[BareId(SONNET45)]), Epoch0)
OneSessionLedger ==
    LET d == Ledger(<<ForeignRecord>>, EmptySummary(Epoch0))
    IN  [d EXCEPT !.summary = UpdateSummary(d, Epoch0)]
TwoSessionLedger ==
    LET d == Ledger(<<ExampleRecord, ForeignRecord>>, EmptySummary(Epoch0))
    IN  [d EXCEPT !.summary = UpdateSummary(d, Epoch0)]

\* SpecLoaded: a tracker over a statistics file left by another version or
\* edited by hand, one of whose session entries has no "tokens" and "costs".
BareRecord == [ExampleRecord EXCEPT !.kind = "bare", !.tokens = NoTokens, !.costs = NoCosts]
BareSessionFile == File(Dump(Ledger(<<BareRecord>>, EmptySummary(Epoch0))))
LoadedStatsFiles == {Absent, StaleSummaryFile, BareSessionFile}

InitLoaded ==
    /\ now = Epoch0
    /\ cache_file \in LedgerCaches
    /\ last = NoCall
    /\ pc = "none"
    /\ data = NoData
    /\ origin = "none"
    /\ stats_file \in LoadedStatsFiles
    /\ tmp_file = Absent
    /\ rs = NoRecord
    /\ truncs = 0
    /\ view = NoView
    /\ upd = NoUpdate
    /\ cache_tmp = NoCacheTmp
    /\ cost = NoCost
    /\ ExtIdle

NextLoaded ==
    \/ Tick
    \/ Construct(TRUE)
    \/ \E input \in RecordInputs, fetch \in LedgerFetches :
          RecordSession(input, fetch, TRUE)
    \/ SaveOpen
    \/ SaveWrite
    \/ SaveRename

SpecLoaded == InitLoaded /\ [][NextLoaded]_vars

\* Two tracker processes of one project directory.  Both name their
\* temporary file usage_statistics.tmp (stats_file.with_suffix(".tmp")).
\* The frame of a step of writer w:
WriterFrame == UNCHANGED <<now, last, upd, cache_tmp, cost, pc, data, origin, rs, truncs,
                           view, reports, patch, report, run>>

\* a place of a file that was never written (a hole left by a write beyond
\* the end of a file that was emptied)
Hole == Tok("hole")

\* write(2) of `chunk` at offset `off` of a file holding `text`
WriteAt(text, off, chunk) ==
    [i \in 1..(IF Len(text) > off + Len(chunk) THEN Len(text) ELSE off + Len(chunk)) |->
        IF i > off /\ i <= off + Len(chunk) THEN chunk[i - off]
        ELSE IF i <= Len(text) THEN text[i]
        ELSE Hole]

\* TokenUsageTracker.__init__ of writer w
WriterConstruct(w) ==
    /\ race.w[w].pc = "none"
    /\ race' = [race EXCEPT !.w[w].pc = "idle",
                            !.w[w].data = LoadOrInitialize(stats_file, TRUE, now)]
    /\ UNCHANGED <<cache_file, stats_file, tmp_file>>
    /\ WriterFrame

\* record_session of writer w up to save_to_file
WriterRecord(w, input, fetch) ==
    /\ race.w[w].pc = "idle"
    /\ Len(race.w[w].data.sessions) < MaxSessions
    /\ LET d        == race.w[w].data
           r        == GetRates(cache_file, now, input.model, fetch, TRUE)
           costs    == CostBreakdown(input.tokens.d, r.rates)
           record   == SessionRecord(Len(d.sessions) + 1, input, costs, now)
           appended == [d EXCEPT !.sessions = AppendSession(d.sessions, record)]
           saved    == [appended EXCEPT !.summary = UpdateSummary(appended, now)]
       IN  /\ cache_file' = r.cache
           /\ IF \/ r.outcome = "raised"
                 \/ input.tokens.shape # "dict"
                 \/ d.shape # "ledger"
              THEN race' = [race EXCEPT !.w[w].raised = TRUE]
              ELSE IF \E i \in 1..Len(appended.sessions) : ~HasFields(appended.sessions[i])
              THEN race' = [race EXCEPT !.w[w].raised = TRUE, !.w[w].data = appended]
              ELSE race' = [race EXCEPT !.w[w].data = saved, !.w[w].pc = "save_open",
                                        !.dumped = race.dumped \cup {Dump(saved)}]
    /\ UNCHANGED <<stats_file, tmp_file>>
    /\ WriterFrame

\* open(temp_file, "w") of writer w: the temporary file is created, or
\* emptied if it is there (the other writer's open file is the same file)
WriterOpen(w) ==
    /\ race.w[w].pc = "save_open"
    /\ tmp_file' = File(<<>>)
    /\ race' = [race EXCEPT !.w[w].pc = "save_write", !.w[w].fd = "tmp", !.w[w].off = 0]
    /\ UNCHANGED <<cache_file, stats_file>>
    /\ WriterFrame

\* json.dump of writer w: the next buffer of ChunkTokens tokens goes to the
\* open file at the writer's offset; the file is closed after the last one
WriterWrite(w) ==
    /\ race.w[w].pc = "save_write"
    /\ LET text  == Dump(race.w[w].data)
           off   == race.w[w].off
           upto  == IF off + ChunkTokens < Len(text) THEN off + ChunkTokens ELSE Len(text)
           chunk == SubSeq(text, off + 1, upto)
       IN  /\ tmp_file' = IF race.w[w].fd = "tmp"
                          THEN File(WriteAt(tmp_file.text, off, chunk)) ELSE tmp_file
           /\ stats_file' = IF race.w[w].fd = "stats"
                            THEN File(WriteAt(stats_file.text, off, chunk)) ELSE stats_file
           /\ race' = [race EXCEPT !.w[w].off = upto,
                                   !.w[w].pc = IF upto = Len(text) THEN "save_rename"
                                               ELSE "save_write",
                                   !.w[w].fd = IF upto = Len(text) THEN "none"
                                               ELSE race.w[w].fd]
    /\ UNCHANGED cache_file
    /\ WriterFrame

\* temp_file.rename(self.stats_file) of writer w.  Without a temporary file
\* (the other writer renamed it) it is a FileNotFoundError, which
\* save_to_file catches; record_session returns either way
WriterRename(w) ==
    /\ race.w[w].pc = "save_rename"
    /\ IF tmp_file.kind = "absent"
       THEN /\ race' = [race EXCEPT !.w[w].pc = "idle", !.w[w].io_failed = TRUE,
                                    !.w[w].returned = race.w[w].returned + 1]
            /\ UNCHANGED <<stats_file, tmp_file>>
       ELSE /\ stats_file' = tmp_file
            /\ tmp_file' = Absent
            /\ race' = [race EXCEPT
                          !.w = [i \in Writers |->
                                   IF i = w
                                   THEN [race.w[i] EXCEPT !.pc = "idle",
                                                          !.returned = race.w[i].returned + 1]
                                   ELSE [race.w[i] EXCEPT
                                           !.fd = CASE race.w[i].fd = "tmp"   -> "stats"
                                                    [] race.w[i].fd = "stats" -> "orphan"
                                                    [] OTHER -> race.w[i].fd]]]
    /\ UNCHANGED cache_file
    /\ WriterFrame

\* SpecWriters: two trackers of one project directory, their record_session
\* calls interleaved at open, write and rename.
WriterInputs ==
    { RecordInput("test_planner", BareId(SONNET45), 15000, 5, PlannerTokens),
      RecordInput("test_executor", BareId(SONNET45), 8500, 3,
                  TokenDict([input_tokens |-> 15, output_tokens |-> 1])) }

InitWriters ==
    /\ now = Epoch0
    /\ cache_file = CacheAbsent
    /\ last = NoCall
    /\ pc = "none"
    /\ data = NoData
    /\ origin = "none"
    /\ stats_file \in {Absent, File(Dump(OneSessionLedger))}
    /\ tmp_file = Absent
    /\ rs = NoRecord
    /\ truncs = 0
    /\ view = NoView
    /\ upd = NoUpdate
    /\ cache_tmp = NoCacheTmp
    /\ cost = NoCost
    /\ reports = NoReports
    /\ patch = NoPatch
    /\ report = NoReport
    /\ race = [NoRace EXCEPT !.dumped = IF stats_file.kind = "text"
                                         THEN {stats_file.text} ELSE {}]
    /\ run = NoRun

NextWriters ==
    \E w \in Writers :
       \/ WriterConstruct(w)
       \/ \E input \in WriterInputs : WriterRecord(w, input, NetworkError)
       \/ WriterOpen(w)
       \/ WriterWrite(w)
       \/ WriterRename(w)

SpecWriters == InitWriters /\ [][NextWriters]_vars

\* update_html_report_cost_statistics(project_dir) on statistics file `stats`
\* and test-reports `rep`: what it returns ("true", "false", or "raised" for
\* an exception) and the test-reports it leaves.  stats_readable, html_readable
\* and write_ok = FALSE are an IOError of open(stats_file), of read_text and
\* of the open of write_text.
UpdateHtml(stats, rep, stats_readable, html_readable, write_ok) ==
    LET unchanged(res) == [result |-> res, reports |-> rep]
        loaded == JsonLoad(stats.text)
        n      == Len(rep.entries)
    IN  IF stats.kind = "absent" THEN unchanged("false")
        ELSE IF ~stats_readable \/ ~loaded.ok THEN unchanged("false")
        ELSE IF loaded.data.shape = "list" THEN unchanged("raised") \* stats_data.get
        ELSE IF ~rep.dir THEN unchanged("false")
        ELSE IF n = 0 THEN unchanged("false")
        ELSE IF rep.entries[n].kind = "absent" THEN unchanged("false")
        ELSE IF ~html_readable THEN unchanged("false")
        ELSE CHOOSE r \in
                 {IF ~p.updated THEN unchanged("false")
                  ELSE IF ~write_ok THEN unchanged("false")
                  ELSE [result |-> "true",
                        reports |-> [rep EXCEPT !.entries[n] = HtmlFile(p.doc)]] :
                  p \in {PatchHtml(rep.entries[n].doc, loaded.data.summary,
                                   loaded.data.sessions)}} : TRUE

\* A call of update_html_report_cost_statistics
UpdateHtmlReport(stats_readable, html_readable, write_ok) ==
    LET r == UpdateHtml(stats_file, reports, stats_readable, html_readable, write_ok)
    IN  /\ reports' = r.reports
        /\ patch' = [called |-> TRUE, result |-> r.result, stats |-> stats_file,
                     stats_readable |-> stats_readable, html_readable |-> html_readable,
                     before |-> reports]
        /\ UNCHANGED <<now, pricingVars, ledgerVars, report, race, run>>

\* The testing agent writes a new report directory, with or without
\* Test_Report_Viewer.html: the newest entry of test-reports
NewReport(entry) ==
    /\ Len(reports.entries) < MaxReports
    /\ reports' = Reports(Append(reports.entries, entry))
    /\ patch' = NoPatch
    /\ UNCHANGED <<now, pricingVars, ledgerVars, report, race, run>>

\* SpecHtml: the patcher on the statistics files a project can hold and on
\* reports with placeholders, default values, both or neither.
HtmlStatsFiles ==
    {Absent, GarbageFile, File(Dump(ListData)), File(Dump(ObjectData)), StaleSummaryFile,
     File(Dump(OneSessionLedger)), File(Dump(TwoSessionLedger))}

DocFull ==
    <<Text("head"), Ph("TOTAL_COST"), Ch("x"), Open>> \o Chars(<<"$", "0", ".", "0", "0">>)
    \o <<Label("Total Cost"), Open>> \o Chars(<<"N", "/", "A">>)
    \o <<Label("Total Tokens"), Open>> \o Chars(<<"~", "5", "m", "i", "n">>)
    \o <<Label("Duration"), Open, Ch("0"), Label("Sessions"), Open>>
    \o Chars(<<"$", "9", ".", "9", "9">>) \o <<Label("Other"), Text("tail")>>
DocPlain ==
    <<Text("head"), Ch("$"), Ch("5"), Open, Ch("$"), Ch("1"), Text("b"), Label("Total Cost"),
      Open, Ch("1"), Ch("2"), Ch("K"), Label("Duration"),
      Open, Ch("$"), Ch("5"), Label("Sessions"), Open, Label("Sessions"), Ph("OTHER")>>
DocMustache ==
    <<Open, Ph("TOTAL_COST"), Label("Total Cost"), Open, Ph("SESSIONS"), Label("Total Tokens"),
      Open, Ph("DURATION"), Label("Duration"), Ph("TOTAL_TOKENS"), Ph("OTHER"),
      Open, Ch("7"), Label("Other")>>
DocVariants ==
    <<Open>> \o Chars(<<"~", "1", "2", "k">>) \o <<Label("Total Tokens"), Open>>
    \o Chars(<<"1", ".", "5", "S">>) \o <<Label("Duration"), Open>>
    \o Chars(<<"n", "/", "a">>) \o <<Label("Duration"), Open, Ch("4"), Ch("2"),
                                     Label("Sessions"), Ch("4"), Ch("2")>>
HtmlEntries ==
    {HtmlAbsent, HtmlFile(DocFull), HtmlFile(DocPlain), HtmlFile(DocMustache),
     HtmlFile(DocVariants)}

InitHtml ==
    /\ now = Epoch0
    /\ cache_file = CacheAbsent
    /\ last = NoCall
    /\ pc = "none"
    /\ data = NoData
    /\ origin = "none"
    /\ stats_file \in HtmlStatsFiles
    /\ tmp_file = Absent
    /\ rs = NoRecord
    /\ truncs = 0
    /\ view = NoView
    /\ upd = NoUpdate
    /\ cache_tmp = NoCacheTmp
    /\ cost = NoCost
    /\ reports \in {NoReports, Reports(<<>>)}
    /\ patch = NoPatch
    /\ report = NoReport
    /\ race = NoRace
    /\ run = NoRun

NextHtml ==
    \/ \E stats_readable \in BOOLEAN, html_readable \in BOOLEAN, write_ok \in BOOLEAN :
          UpdateHtmlReport(stats_readable, html_readable, write_ok)
    \/ \E entry \in HtmlEntries : NewReport(entry)

SpecHtml == InitHtml /\ [][NextHtml]_vars

(***************************************************************************)
(* The harness: main of autonomous_agent_demo.py and the loop of           *)
(* run_autonomous_testing_agent.  The tracker the loop owns is the one of  *)
(* the actions above.                                                      *)
(***************************************************************************)
\* the frame of a step of the harness that does not touch the tracker
RunFrame == UNCHANGED <<now, pricingVars, ledgerVars, reports, patch, report, race>>

TestCases(cases) == [kind |-> "list", cases |-> cases]
\* a test_cases.json that load_test_cases rejects
BrokenTestCases == [kind |-> "broken", cases |-> <<>>]

\* sum(1 for tc in test_cases if tc.get("status") == status)
CountStatus(cases, status) == Cardinality({i \in 1..Len(cases) : cases[i] = status})

\* count_test_cases: zeros without the file or on any exception
count_test_cases(file) ==
    IF file.kind # "list"
    THEN [total |-> 0, passed |-> 0, failed |-> 0, blocked |-> 0, not_run |-> 0]
    ELSE [total   |-> Len(file.cases),
          passed  |-> CountStatus(file.cases, "Pass"),
          failed  |-> CountStatus(file.cases, "Fail"),
          blocked |-> CountStatus(file.cases, "Blocked"),
          not_run |-> CountStatus(file.cases, "Not Run")]

\* if stats['not_run'] == 0 and stats['total'] > 0
AllTestsExecuted(stats) == stats.not_run = 0 /\ stats.total > 0

\* if stats['blocked'] == stats['total']
EveryTestBlocked(stats) == stats.blocked = stats.total

\* a loop that records whatever the session returned
UsageAssumed(usage_data) == TRUE

\* if usage_data and usage_data.get("usage")
UsageAvailable(usage_data) == usage_data = "usage"

\* if max_iterations and iteration > max_iterations
ReachedMaxIterations(max_iterations, iteration) ==
    max_iterations # 0 /\ iteration > max_iterations

\* main: check_aws_bedrock_config / check_anthropic_api_key
CheckCredentials(ok) ==
    /\ run.pc = "main"
    /\ run' = IF ok THEN [run EXCEPT !.pc = "setup"]
              ELSE [run EXCEPT !.pc = "exited", !.exit_code = 1]
    /\ RunFrame

\* run_autonomous_testing_agent before the loop, after the tracker is built:
\* is_first_run and, on a first run, the copies into the project directory
\* (copy_ok = FALSE: copy_to_project raises)
Setup(copy_ok) ==
    /\ run.pc = "setup"
    /\ pc = "idle"
    /\ run' = IF run.test_cases.kind = "absent" /\ ~copy_ok
              THEN [run EXCEPT !.pc = "raised", !.raised_in = "setup", !.is_first_run = TRUE]
              ELSE [run EXCEPT !.pc = "loop", !.iteration = 0, !.all_tests_blocked = FALSE,
                               !.is_first_run = (run.test_cases.kind = "absent")]
    /\ RunFrame

\* the head of the loop: iteration += 1 and the max_iterations check
LoopHead ==
    /\ run.pc = "loop"
    /\ run.iteration < MaxIterations + 1
    /\ run' = IF ReachedMaxIterations(run.max_iterations, run.iteration + 1)
              THEN [run EXCEPT !.iteration = run.iteration + 1, !.pc = "final",
                               !.ended = "max_iterations"]
              ELSE [run EXCEPT !.iteration = run.iteration + 1, !.pc = "client",
                               !.before = Len(data.sessions)]
    /\ RunFrame

\* create_client and the entry of "async with client" (ok = FALSE: the
\* ValueError of _configure_authentication, or the connection failing)
StartSession(ok) ==
    /\ run.pc = "client"
    /\ run' = IF ok
              THEN [run EXCEPT !.pc = "session", !.client = "open", !.is_first_run = FALSE,
                               !.started = run.started + 1, !.status = "none",
                               !.usage_data = "none"]
              ELSE [run EXCEPT !.pc = "raised", !.raised_in = "client"]
    /\ RunFrame

\* run_agent_session returns and "async with client" is left.  The agent has
\* left test_cases.json as `file`; usage_data is None ("none"), has no usage
\* ("empty") or has one ("usage"); after an exception it is None.
EndSession(status, usage_data, file) ==
    /\ run.pc = "session"
    /\ status = "ERROR" => usage_data = "none"
    /\ run' = [run EXCEPT !.pc = "cleanup", !.client = "closed", !.status = status,
                          !.usage_data = usage_data, !.test_cases = file]
    /\ RunFrame

\* client.cleanup(), an exception of which is printed; then the choice
\* between recording and the warning that there is no usage data
Cleanup(ok) ==
    /\ run.pc = "cleanup"
    /\ run' = [run EXCEPT !.client = IF ok THEN "released" ELSE "cleanup_failed",
                          !.pc = IF UsageAvailable(run.usage_data) THEN "record"
                                 ELSE "status"]
    /\ rs' = NoRecord
    /\ UNCHANGED <<now, pricingVars, pc, data, origin, stats_file, tmp_file, truncs, view,
                   reports, patch, report, race>>

\* usage_tracker.record_session(...) of the loop: the tracker's call
RecordUsage(input) ==
    /\ run.pc = "record"
    /\ rs.status = "none"
    /\ RecordSession(input, NetworkError, TRUE)

\* record_session has returned or raised ("except Exception"): the loop goes on
AfterRecord ==
    /\ run.pc = "record"
    /\ pc = "idle"
    /\ rs.status \in {"returned", "raised"}
    /\ run' = [run EXCEPT !.pc = "status"]
    /\ RunFrame

\* "Handle status": after CONTINUE the test cases are counted and the loop
\* is left when all were executed; after ERROR the loop goes on
HandleStatus ==
    /\ run.pc = "status"
    /\ LET stats == count_test_cases(run.test_cases)
       IN  run' = IF run.status = "CONTINUE" /\ AllTestsExecuted(stats)
                  THEN IF EveryTestBlocked(stats)
                       THEN [run EXCEPT !.pc = "final", !.all_tests_blocked = TRUE,
                                        !.ended = "blocked"]
                       ELSE [run EXCEPT !.pc = "final", !.ended = "completed"]
                  ELSE [run EXCEPT !.pc = "loop"]
    /\ RunFrame

\* the final summary, and the cost report in its try block (write_ok = FALSE:
\* write_text fails)
FinalSummary(write_ok) ==
    /\ run.pc = "final"
    /\ LET r == IF data.shape = "ledger"
                  /\ \A i \in 1..Len(data.sessions) : HasFields(data.sessions[i])
                THEN MarkdownReport(data.summary, data.sessions).outcome
                ELSE "raised"
       IN  run' = [run EXCEPT !.pc = "html",
                              !.report = IF r = "returned" /\ write_ok THEN "saved"
                                         ELSE "failed"]
    /\ RunFrame

\* update_html_report_cost_statistics in its try block
FinalHtml(write_ok) ==
    /\ run.pc = "html"
    /\ LET r == UpdateHtml(stats_file, reports, TRUE, TRUE, write_ok)
       IN  /\ reports' = r.reports
           /\ run' = [run EXCEPT !.pc = "return", !.html = r.result]
    /\ UNCHANGED <<now, pricingVars, ledgerVars, patch, report, race>>

\* return 1 if all_tests_blocked else 0, and main's sys.exit(exit_code)
Return ==
    /\ run.pc = "return"
    /\ run' = [run EXCEPT !.pc = "exited",
                          !.exit_code = IF run.all_tests_blocked THEN 1 ELSE 0]
    /\ RunFrame

\* main: except Exception: sys.exit(2)
FatalError ==
    /\ run.pc = "raised"
    /\ run' = [run EXCEPT !.pc = "exited", !.exit_code = 2]
    /\ RunFrame

\* main: except KeyboardInterrupt: sys.exit(130)
KeyboardInterrupt ==
    /\ run.pc \in {"setup", "loop", "client", "session", "cleanup", "record", "status",
                   "final", "html", "return"}
    /\ run' = [run EXCEPT !.pc = "exited", !.exit_code = 130, !.raised_in = "interrupt"]
    /\ RunFrame

\* SpecLoop: one run of the harness, on project directories with and without
\* test cases, a statistics file and a report.
LoopStatsFiles == {Absent, File(Dump(ListData)), BareSessionFile}
LoopTestCases ==
    {NoTestCases, BrokenTestCases,
     TestCases(<<"Not Run", "Blocked">>), TestCases(<<"Blocked", "Blocked">>),
     TestCases(<<"Pass", "Blocked">>), TestCases(<<"Skipped">>)}
LoopReports == {NoReports, Reports(<<HtmlFile(DocMustache)>>)}
LoopInputs ==
    { RecordInput("test_executor", BareId(SONNET45), 8500, 3,
                  TokenDict([input_tokens |-> 15, output_tokens |-> 1])),
      RecordInput("test_executor", BareId(SONNET45), 8500, 3, NotADict) }

InitLoop ==
    /\ now = Epoch0
    /\ cache_file = CacheAbsent
    /\ last = NoCall
    /\ pc = "none"
    /\ data = NoData
    /\ origin = "none"
    /\ stats_file \in LoopStatsFiles
    /\ tmp_file = Absent
    /\ rs = NoRecord
    /\ truncs = 0
    /\ view = NoView
    /\ upd = NoUpdate
    /\ cache_tmp = NoCacheTmp
    /\ cost = NoCost
    /\ reports \in LoopReports
    /\ patch = NoPatch
    /\ report = NoReport
    /\ race = NoRace
    /\ \E n \in 0..MaxIterations, file \in {NoTestCases, TestCases(<<"Not Run", "Blocked">>)} :
          run = [NoRun EXCEPT !.pc = "main", !.max_iterations = n, !.test_cases = file]

NextLoop ==
    \/ \E ok \in BOOLEAN : CheckCredentials(ok)
    \/ (run.pc = "setup" /\ Construct(TRUE))
    \/ \E copy_ok \in BOOLEAN : Setup(copy_ok)
    \/ LoopHead
    \/ \E ok \in BOOLEAN : StartSession(ok)
    \/ \E status \in {"CONTINUE", "ERROR"}, usage_data \in {"none", "empty", "usage"},
          file \in LoopTestCases : EndSession(status, usage_data, file)
    \/ \E ok \in BOOLEAN : Cleanup(ok)
    \/ \E input \in LoopInputs : RecordUsage(input)
    \/ (run.pc = "record" /\ SaveOpen)
    \/ (run.pc = "record" /\ SaveWrite)
    \/ (run.pc = "record" /\ SaveRename)
    \/ AfterRecord
    \/ HandleStatus
    \/ \E write_ok \in BOOLEAN : FinalSummary(write_ok)
    \/ \E write_ok \in BOOLEAN : FinalHtml(write_ok)
    \/ Return
    \/ FatalError
    \/ KeyboardInterrupt

SpecLoop == InitLoop /\ [][NextLoop]_vars

(***************************************************************************)
(* Claims about the pricing chain (SpecPricing).                           *)
(***************************************************************************)
RateFields == {"input_rate", "output_rate", "cache_write_rate", "cache_read_rate"}

\* age < validity window, read off the file and the clock
FreshEnvelope(cache, t) ==
    /\ cache.kind = "envelope"
    /\ cache.fetched_at # NoFetchedAt
    /\ t - cache.fetched_at < DEFAULT_CACHE_VALIDITY_HOURS * SECONDS_PER_HOUR

\* the cache file yields rates for the model, directly or through a variant
CacheHasModel(cache, model) == Lookup(cache, model).r = "some"

\* the place of a source in the resolution order
Rank(source) ==
    CASE source = "valid_cache" -> 1
      [] source = "fetch"       -> 2
      [] source = "disk_cache"  -> 3
      [] source = "hardcoded"   -> 4

Last(seq) == seq[Len(seq)]
InTrace(source) == \E i \in 1..Len(last.trace) : last.trace[i] = source

\* the fetch failed: a network error, a body that is no JSON, or JSON that is
\* no table of per-model cost objects
FetchFailed(fetch) ==
    \/ fetch.kind \in {"network_error", "non_json"}
    \/ fetch.value.kind # "table"
    \/ DOMAIN fetch.value.tbl = {}
    \/ \E key \in DOMAIN fetch.value.tbl : fetch.value.tbl[key].kind # "dict"

\* C4 (as claimed): get_rates never raises and always returns an entry with
\* the four rates, whatever the cache state and the fetch outcome.
C4_GetRatesNeverRaises ==
    last.called => (last.outcome = "returned" /\ DOMAIN last.rates = RateFields)

\* C5: get_rates consults valid cache, fetch, cache on disk, hardcoded table
\* in this order and skips none before the one it returns from; a valid cache
\* that holds the model (directly or through a name variant) is returned from
\* with no fetch and with the cache file left as it was; and a fetch that
\* yields the model's rates is returned from without the later sources.
C5_ResolutionOrder ==
    last.called =>
      /\ \A i, j \in 1..Len(last.trace) :
            i < j => Rank(last.trace[i]) < Rank(last.trace[j])
      /\ InTrace("hardcoded") => InTrace("disk_cache")
      /\ InTrace("disk_cache") => InTrace("fetch")
      /\ InTrace("valid_cache") => FreshEnvelope(last.before, last.t)
      /\ (FreshEnvelope(last.before, last.t) /\ CacheHasModel(last.before, last.model)) =>
            /\ last.outcome = "returned"
            /\ last.trace = <<"valid_cache">>
            /\ last.rates = Lookup(last.before, last.model).v
            /\ cache_file = last.before
      /\ (last.outcome = "returned" /\ Last(last.trace) = "fetch") =>
            /\ ~FetchFailed(last.fetch)
            /\ cache_file = Envelope(last.t, last.fetch.value)
            /\ last.rates = Lookup(cache_file, last.model).v

\* C5 witness: a valid cache that holds only the bare name answered a call
\* for the inference-profile id
C5_Witness ==
    /\ last.called
    /\ last.model = ProfileId(SONNET45)
    /\ FreshEnvelope(last.before, last.t)
    /\ last.before.pricing = SonnetTable
    /\ last.trace = <<"valid_cache">>
    /\ last.fetch = JsonBody(OpusTable)

\* C6 (as claimed): when the fetch fails, by a network error or a malformed
\* response, and the cache file holds the model, get_rates returns the rates
\* of that cache and leaves the cache file as it was.
C6_FailedFetchKeepsCache ==
    (last.called /\ FetchFailed(last.fetch) /\ CacheHasModel(last.before, last.model)) =>
      /\ last.outcome = "returned"
      /\ last.rates = Lookup(last.before, last.model).v
      /\ cache_file = last.before

SonnetIds == {BareId(SONNET45), ProfileId(SONNET45), ProviderId(SONNET45)}
Opus45Ids == {BareId(OPUS45), ProfileId(OPUS45), ProviderId(OPUS45)}

\* C15 (as claimed): when get_rates has returned rates for one id of a model,
\* the call for any other id of the same model, on the same cache, at the
\* same time and with the same fetch outcome, that resolves at the same
\* tier returns identical rates.
C15_SameRatesForAllIds ==
    (last.called /\ last.outcome = "returned" /\ last.model \in SonnetIds) =>
      \A other \in SonnetIds :
         LET r == GetRates(last.before, last.t, other, last.fetch, last.write_ok)
         IN  (r.outcome = "returned" /\ Last(r.trace) = Last(last.trace)) =>
                r.rates = last.rates

\* The rates per million tokens of the feed entries, worked out by hand:
\* 0.000003 USD per token is 3.00 USD per million, a missing field is 0.
HandRates(entry) ==
    CASE entry = SonnetEntry -> Rates(300, 1500, 375, 30)    \* 3.00 15.00 3.75 0.30
      [] entry = OpusEntry   -> Rates(500, 2500, 625, 50)    \* 5.00 25.00 6.25 0.50
      [] entry = PartEntry   -> Rates(300, 1500, 0, 0)       \* 3.00 15.00 0    0
      [] OTHER               -> NoRates

\* C16: rates that get_rates returns from the cache or from the fetch are
\* those of an entry of the pricing table on disk, each per-token value
\* times 1,000,000 and a missing field 0.
C16_PerMillionRates ==
    (last.called /\ last.outcome = "returned" /\ Last(last.trace) # "hardcoded") =>
      /\ cache_file.kind = "envelope"
      /\ cache_file.pricing.kind = "table"
      /\ \E key \in DOMAIN cache_file.pricing.tbl :
            /\ cache_file.pricing.tbl[key] \in {SonnetEntry, OpusEntry, PartEntry}
            /\ last.rates = HandRates(cache_file.pricing.tbl[key])

\* C16 witness: rates resolved from an entry that lacks the two cache fields
C16_Witness ==
    /\ last.called
    /\ last.outcome = "returned"
    /\ Last(last.trace) = "valid_cache"
    /\ last.model = ProviderId(SONNET45)
    /\ last.rates = Rates(300, 1500, 0, 0)

\* the fetch yields nothing: a network error, a body that is no JSON, or an
\* empty JSON object
FetchYieldsNothing(fetch) ==
    \/ fetch.kind \in {"network_error", "non_json"}
    \/ fetch = JsonBody(EmptyTable)

C18_ValidityWindow ==
    last.called =>
      /\ InTrace("valid_cache") <=> FreshEnvelope(last.before, last.t)
      /\ (last.outcome = "returned" /\ ~FreshEnvelope(last.before, last.t)) =>
            last.trace[1] = "fetch"
      /\ (last.outcome = "returned" /\ Last(last.trace) \in {"disk_cache", "hardcoded"}) =>
            InTrace("fetch")

\* C18 witness: a cache exactly 24 hours old was served only after a fetch
\* that failed
C18_Witness ==
    /\ last.called
    /\ last.before = Envelope(Epoch0, SonnetTable)
    /\ last.t - last.before.fetched_at = DEFAULT_CACHE_VALIDITY_HOURS * SECONDS_PER_HOUR
    /\ last.fetch = NetworkError
    /\ last.outcome = "returned"
    /\ last.trace = <<"fetch", "disk_cache">>
    /\ last.rates = Rates(300, 1500, 375, 30)

\* C19: no step of update_price_cache, no I/O error and no crash changes
\* the cache file except the rename, which installs the complete new
\* envelope with the fetched pricing and fetched_at the time of the fetch;
\* the cache file is never removed.  (SpecCacheWrite)
C19_CacheReplacedAtomically ==
    [][ /\ cache_file.kind # "absent" => cache_file'.kind # "absent"
        /\ cache_file' # cache_file =>
              /\ upd.pc = "rename"
              /\ cache_file'.kind = "envelope"
              /\ cache_file'.pricing = upd.pricing
              /\ cache_file'.fetched_at = upd.t
              /\ upd.t <= now ]_vars

\* C19 witness: the process died while the temporary file was half written,
\* after an earlier update had replaced the cache; the cache file holds the
\* complete envelope of that update
C19_Witness ==
    /\ upd.pc = "idle"
    /\ cache_tmp.kind = "text"
    /\ cache_tmp.written > 0
    /\ cache_tmp.written < CacheChunks
    /\ cache_tmp.env.pricing = OpusTable
    /\ cache_file = Envelope(Epoch0, SonnetTable)

\* (count / 1,000,000) * rate, in cost units
ExactCost(count, rate) == count * rate * (CostUnit \div (MILLION * RateUnit))

\* c is x rounded to 6 places: a multiple of 0.000001 USD nearest to x
RoundedTo6(c, x) ==
    LET q == CostUnit \div MILLION
    IN  c % q = 0 /\ 2 * (c - x) <= q /\ 2 * (x - c) <= q

\* C20: calculate_cost returns each component cost as (count / 1,000,000) *
\* rate rounded to 6 places, a token key that is absent counting 0, and
\* total_cost as the sum of the four unrounded components rounded to 6
\* places; 1000/2000/500/800 tokens at 3.00/15.00/3.75/0.30 give 0.003,
\* 0.03, 0.001875, 0.00024 and 0.035115.  (SpecCost)
C20_CostBreakdown ==
    (cost.called /\ cost.outcome = "returned") =>
      LET d  == cost.tokens.d
          x1 == ExactCost(IF "input_tokens" \in DOMAIN d THEN d.input_tokens ELSE 0,
                          cost.rates.input_rate)
          x2 == ExactCost(IF "output_tokens" \in DOMAIN d THEN d.output_tokens ELSE 0,
                          cost.rates.output_rate)
          x3 == ExactCost(IF "cache_creation_tokens" \in DOMAIN d
                          THEN d.cache_creation_tokens ELSE 0,
                          cost.rates.cache_write_rate)
          x4 == ExactCost(IF "cache_read_tokens" \in DOMAIN d THEN d.cache_read_tokens ELSE 0,
                          cost.rates.cache_read_rate)
      IN  /\ RoundedTo6(cost.costs.input_cost, x1)
          /\ RoundedTo6(cost.costs.output_cost, x2)
          /\ RoundedTo6(cost.costs.cache_creation_cost, x3)
          /\ RoundedTo6(cost.costs.cache_read_cost, x4)
          /\ RoundedTo6(cost.costs.total_cost, x1 + x2 + x3 + x4)
          /\ (cost.tokens = ExampleTokens /\ cost.rates = Rates(300, 1500, 375, 30)) =>
                cost.costs = [input_cost |-> 300000, output_cost |-> 3000000,
                              cache_creation_cost |-> 187500, cache_read_cost |-> 24000,
                              total_cost |-> 3511500]

\* C20 witness: a call without the output key whose total is not the sum of
\* its rounded components
C20_Witness ==
    /\ cost.called
    /\ cost.outcome = "returned"
    /\ "output_tokens" \notin DOMAIN cost.tokens.d
    /\ cost.rates.output_rate > 0
    /\ cost.costs.output_cost = 0
    /\ cost.costs.total_cost > 0
    /\ cost.costs.total_cost #
          cost.costs.input_cost + cost.costs.cache_creation_cost + cost.costs.cache_read_cost

\* the sum of the four component costs a breakdown reports
ReportedSum(costs) ==
    costs.input_cost + costs.output_cost + costs.cache_creation_cost + costs.cache_read_cost

\* C21 (as claimed): every breakdown calculate_cost returns has total_cost =
\* round(input_cost + output_cost + cache_creation_cost + cache_read_cost, 6),
\* the summands being the component costs the same breakdown reports.
C21_TotalIsRoundedSumOfReported ==
    (cost.called /\ cost.outcome = "returned") =>
       cost.costs.total_cost = Round(ReportedSum(cost.costs), 6)

\* C21 (amended): total_cost is the sum of the four component costs before
\* their own rounding, rounded to 6 places; it is a multiple of 0.000001 USD
\* that differs from the sum of the four reported components by at most
\* 0.000002 USD.
C21_TotalNearSumOfReported ==
    (cost.called /\ cost.outcome = "returned") =>
      LET q == CostUnit \div MILLION
          d == cost.tokens.d
          exact == ExactCost(TokenGet(d, "input_tokens"), cost.rates.input_rate)
                   + ExactCost(TokenGet(d, "output_tokens"), cost.rates.output_rate)
                   + ExactCost(TokenGet(d, "cache_creation_tokens"), cost.rates.cache_write_rate)
                   + ExactCost(TokenGet(d, "cache_read_tokens"), cost.rates.cache_read_rate)
      IN  /\ RoundedTo6(cost.costs.total_cost, exact)
          /\ cost.costs.total_cost - ReportedSum(cost.costs) <= 2 * q
          /\ ReportedSum(cost.costs) - cost.costs.total_cost <= 2 * q

\* C21 witness: a breakdown whose total is 0.000001 USD more than the sum of
\* the components it reports
C21_Witness ==
    /\ cost.called
    /\ cost.outcome = "returned"
    /\ cost.costs.total_cost = ReportedSum(cost.costs) + (CostUnit \div MILLION)

\* C22: calculate_cost is pure and deterministic: a call fetches nothing from
\* the network and reads and writes no file (the pricing cache file is as it
\* was before the call), and the breakdown for the same token counts and
\* model is the same whatever the cache file holds and whatever a fetch
\* would return.  (SpecCostIO)
C22_CalculateCostIsPure ==
    cost.called =>
      /\ last.trace = <<>>
      /\ cache_file = last.before
      /\ \A c \in CostIOCaches, f \in CostIOFetches :
            LET r == GetRates(c, now, cost.model, f, TRUE)
            IN  (cost.outcome = "returned" /\ r.outcome = "returned") =>
                   cost.costs = CostBreakdown(cost.tokens.d, r.rates)

(***************************************************************************)
(* Claims about the ledger (Spec).                                         *)
(***************************************************************************)
\* this tracker started from an empty ledger
FromEmpty == pc # "none" /\ origin \in {"absent", "unreadable", "unparseable"}

SumOver(Op(_), sessions) == SeqSum(SeqMap(Op, sessions))

\* C1: for a tracker started from an empty ledger, after any number of
\* record_session calls, summary.total_tokens is the sum of the sessions'
\* total_tokens and the sum of the four category totals, and every category
\* total is the sum of that category over the sessions.
C1_TokenTotals ==
    FromEmpty =>
      /\ data.summary.total_tokens = SumOver(TotalTokensOf, data.sessions)
      /\ data.summary.total_tokens =
            data.summary.total_input_tokens + data.summary.total_output_tokens
            + data.summary.total_cache_creation_tokens + data.summary.total_cache_read_tokens
      /\ data.summary.total_input_tokens = SumOver(InputOf, data.sessions)
      /\ data.summary.total_output_tokens = SumOver(OutputOf, data.sessions)
      /\ data.summary.total_cache_creation_tokens = SumOver(CacheCreationOf, data.sessions)
      /\ data.summary.total_cache_read_tokens = SumOver(CacheReadOf, data.sessions)

\* C1 witness: two sessions recorded from empty, with cache tokens among them
C1_Witness ==
    /\ FromEmpty
    /\ rs.status = "returned"
    /\ Len(data.sessions) = 2
    /\ data.summary.total_cache_read_tokens > 0
    /\ data.summary.total_tokens > data.summary.total_input_tokens

\* C2: for a tracker started from an empty ledger, summary.total_cost_usd is
\* the sum of the sessions' costs.total_cost rounded to 4 places.
C2_CostTotal ==
    FromEmpty =>
      data.summary.total_cost_usd = Round(SumOver(TotalCostOf, data.sessions), 4)

\* C2 witness: two sessions whose rounded sum differs from what adding the
\* second cost to the rounded first cost gives
C2_Witness ==
    /\ FromEmpty
    /\ rs.status = "returned"
    /\ Len(data.sessions) = 2
    /\ data.summary.total_cost_usd > 0
    /\ data.summary.total_cost_usd #
         Round(Round(TotalCostOf(data.sessions[1]), 4) + TotalCostOf(data.sessions[2]), 4)

\* C3: no step of the tracker (a step of save_to_file, an I/O error, a crash)
\* changes the statistics file except by installing the complete new text:
\* the file is never removed, emptied or partially written.  (Truncate is the
\* simulated outside event, which counts truncs.)
C3_AtomicReplace ==
    [][ (truncs' = truncs /\ stats_file' # stats_file) =>
           /\ pc = "save_rename"
           /\ stats_file' = File(Dump(data))
           /\ JsonLoad(stats_file'.text).ok
           /\ JsonLoad(stats_file'.text).data = data ]_vars

\* C3 witness: the process died while the temporary file was half written,
\* and the statistics file still holds the complete previous ledger
C3_Witness ==
    /\ pc = "none"
    /\ truncs = 0
    /\ tmp_file.kind = "text"
    /\ Len(tmp_file.text) > 0
    /\ ~JsonLoad(tmp_file.text).ok
    /\ stats_file.kind = "text"
    /\ JsonLoad(stats_file.text).ok
    /\ Len(JsonLoad(stats_file.text).data.sessions) = 1

\* C8 (as claimed): after every record_session call that returns, the
\* statistics file holds the in-memory ledger and was replaced exactly once
\* during the call.
C8_ReturnedMeansPersisted ==
    (pc = "idle" /\ rs.status = "returned") =>
      /\ stats_file.kind = "text"
      /\ JsonLoad(stats_file.text).ok
      /\ JsonLoad(stats_file.text).data = data
      /\ rs.renames = 1

\* C9 (as claimed): a tracker constructed over an absent, unreadable or
\* malformed statistics file (one that does not parse, or parses to a value
\* of another shape) holds an empty ledger, and the first record_session that
\* returns leaves exactly one session.
C9_MalformedFileStartsEmpty ==
    (pc # "none" /\ origin \in {"absent", "unreadable", "unparseable", "wrong_shape"}) =>
      /\ data.shape = "ledger"
      /\ rs.status = "none" =>
            /\ data.sessions = <<>>
            /\ data.summary = EmptySummary(data.summary.last_updated)
      /\ rs.status # "none" => Len(data.sessions) <= MaxSessions

\* the summary is the aggregate of the sessions
IsAggregate(summary, sessions) ==
    /\ summary.total_sessions = Len(sessions)
    /\ summary.total_input_tokens = SumOver(InputOf, sessions)
    /\ summary.total_output_tokens = SumOver(OutputOf, sessions)
    /\ summary.total_cache_creation_tokens = SumOver(CacheCreationOf, sessions)
    /\ summary.total_cache_read_tokens = SumOver(CacheReadOf, sessions)
    /\ summary.total_tokens = SumOver(TotalTokensOf, sessions)
    /\ summary.total_cost_usd = Round(SumOver(TotalCostOf, sessions), 4)

\* C10: when record_session is called while the statistics file is a
\* half-written text, and the call returns without an I/O error of its
\* write, the statistics file is a complete text that parses to a ledger
\* whose summary is the aggregate of its sessions.
C10_RecoversFromTruncation ==
    (pc = "idle" /\ rs.status = "returned" /\ ~rs.io_failed /\ rs.before = "unparseable") =>
      /\ stats_file.kind = "text"
      /\ JsonLoad(stats_file.text).ok
      /\ JsonLoad(stats_file.text).data.shape = "ledger"
      /\ Len(JsonLoad(stats_file.text).data.sessions) >= 1
      /\ IsAggregate(JsonLoad(stats_file.text).data.summary,
                     JsonLoad(stats_file.text).data.sessions)

\* C10 witness: a tracker that had loaded a one-session ledger before the
\* file was truncated has recorded a second session
C10_Witness ==
    /\ pc = "idle"
    /\ rs.status = "returned"
    /\ ~rs.io_failed
    /\ rs.before = "unparseable"
    /\ truncs = 1
    /\ origin = "ledger"
    /\ Len(data.sessions) = 2

\* C11 (as claimed): in every state of a tracker that holds a ledger, the
\* state right after loading an existing statistics file included, the
\* summary is the aggregate recomputed from the sessions.
C11_SummaryIsAggregate ==
    (pc # "none" /\ data.shape = "ledger") => IsAggregate(data.summary, data.sessions)

\* C12: while a tracker lives, every step leaves the sessions it holds (those
\* loaded from disk and those recorded earlier) as they are and in place; a
\* record_session call that goes on to save has added exactly one record,
\* at the end.
C12_AppendOnly ==
    [][ (pc # "none" /\ pc' # "none") =>
           /\ Len(data'.sessions) >= Len(data.sessions)
           /\ Len(data'.sessions) <= Len(data.sessions) + 1
           /\ Prefix(data'.sessions, Len(data.sessions)) = data.sessions
           /\ (pc = "idle" /\ pc' = "save_open") <=>
                 (Len(data'.sessions) = Len(data.sessions) + 1) ]_vars

\* C12 witness: a tracker that loaded one session from disk has recorded a
\* different second one behind it
C12_Witness ==
    /\ pc = "idle"
    /\ origin = "ledger"
    /\ rs.status = "returned"
    /\ Len(data.sessions) = 2
    /\ data.sessions[1].session_type = "test_planner"
    /\ data.sessions[2].session_type = "test_executor"

\* C13 (as claimed): a record_session call whose write step failed with an
\* I/O error does not return as a call that saved the record does.
C13_WriteFailureSurfaced ==
    rs.io_failed => rs.status # "returned"

\* C14: constructing a tracker and the three reads (get_summary,
\* get_session_history, generate_markdown_report) write nothing: the
\* statistics file, with the last_updated it holds, and the temporary file
\* stay exactly as they are, and a read leaves the ledger in memory alone.
\* (SpecReads)
C14_ReadsDoNotWrite ==
    [][ /\ (pc = "none" /\ pc' = "idle") =>
              (stats_file' = stats_file /\ tmp_file' = tmp_file)
        /\ (view' # view /\ view'.op # "none") =>
              (stats_file' = stats_file /\ tmp_file' = tmp_file /\ data' = data) ]_vars

\* C14 witness: a tracker constructed, a clock step after the file was
\* saved, over a ledger of one session, with no record_session call, has
\* rendered its report, and the file is the ledger it loaded with the
\* last_updated of the save
C14_Witness ==
    /\ pc = "idle"
    /\ origin = "ledger"
    /\ rs.status = "none"
    /\ view.op = "generate_markdown_report"
    /\ view.outcome = "returned"
    /\ Len(view.sessions) = 1
    /\ stats_file = File(Dump(data))
    /\ data.summary.total_sessions = 1
    /\ data.summary.last_updated < now

(***************************************************************************)
(* Claims about update_html_report_cost_statistics (SpecHtml).             *)
(***************************************************************************)
\* the newest entry of test-reports
LatestEntry(rep) == rep.entries[Len(rep.entries)]

\* no placeholder and no default-value pattern matches the text
NoPatternMatches(doc) ==
    /\ \A k \in 1..4 : ~HasPlaceholder(doc, PlaceholderNames[k])
    /\ \A k \in 1..4 : ~HasSlot(doc, SlotLabels[k])

\* the statistics file is there, can be read and holds a ledger
StatsWellFormed(stats, readable) ==
    /\ stats.kind = "text"
    /\ readable
    /\ JsonLoad(stats.text).ok
    /\ JsonLoad(stats.text).data.shape = "ledger"

\* C23: update_html_report_cost_statistics returns False without raising and
\* leaves every HTML file as it was whenever usage_statistics.json is absent,
\* unreadable or malformed, test-reports is absent or has no entries, the
\* latest entry has no Test_Report_Viewer.html, or no placeholder and no
\* default-value pattern matches.
C23_FalseAndUntouched ==
    (/\ patch.called
     /\ \/ ~StatsWellFormed(patch.stats, patch.stats_readable)
        \/ ~patch.before.dir
        \/ patch.before.entries = <<>>
        \/ LatestEntry(patch.before).kind = "absent"
        \/ NoPatternMatches(LatestEntry(patch.before).doc))
    => (patch.result = "false" /\ reports = patch.before)

\* The text of a report cut at its markup: Frame is the markup (every token
\* that is no character and none of the four placeholders), the segments are
\* the runs of characters and placeholders before, between and after it.
IsFrame(tok) == tok.t # "ch" /\ \A k \in 1..4 : tok # Ph(PlaceholderNames[k])

Frame(doc) == SelectSeq(doc, IsFrame)

\* the positions of the markup, in order
FramePositions(doc) == SelectSeq([i \in 1..Len(doc) |-> i], LAMBDA i : IsFrame(doc[i]))

\* the k-th segment: what stands between the (k-1)-th and the k-th markup,
\* the two ends of the text included
Segment(doc, pos, k) ==
    SubSeq(doc,
           (IF k = 1 THEN 0 ELSE pos[k - 1]) + 1,
           (IF k > Len(pos) THEN Len(doc) + 1 ELSE pos[k]) - 1)

\* a segment with each of the four placeholders replaced by its value
RECURSIVE Filled(_, _)
Filled(seg, values) ==
    IF seg = <<>> THEN <<>>
    ELSE (IF \E k \in 1..4 : Head(seg) = Ph(PlaceholderNames[k])
          THEN Chars(values[CHOOSE k \in 1..4 : Head(seg) = Ph(PlaceholderNames[k])])
          ELSE <<Head(seg)>>)
         \o Filled(Tail(seg), values)

\* `after` is `before` with nothing changed but the four placeholders, which
\* hold their values, and the value text of the slots labeled Total Cost,
\* Total Tokens, Duration and Sessions whose text has the label's form, which
\* is the label's value
OnlySlotsChanged(before, after, values) ==
    \E fb \in {Frame(before)}, pb \in {FramePositions(before)},
       pa \in {FramePositions(after)}, vals \in {values} :
       /\ Frame(after) = fb
       /\ \A k \in 1..(Len(fb) + 1) :
             \E seg \in {Filled(Segment(before, pb, k), vals)} :
                LET isSlot == /\ k > 1
                              /\ k <= Len(fb)
                              /\ fb[k - 1] = Open
                              /\ fb[k].t = "label"
                              /\ \E j \in 1..4 :
                                    /\ fb[k].v = SlotLabels[j]
                                    /\ ValueMatches(SlotLabels[j], seg)
                IN  Segment(after, pa, k) =
                       IF isSlot
                       THEN Chars(vals[CHOOSE j \in 1..4 : fb[k].v = SlotLabels[j]])
                       ELSE seg

\* the most recent call changed nothing in test-reports but the text of the
\* latest report, and that only in its placeholders and labeled slots
PatchIsLocal ==
    patch.called =>
      IF patch.result = "true"
      THEN LET n == Len(patch.before.entries)
               d == JsonLoad(patch.stats.text).data
           IN  /\ reports.dir
               /\ Len(reports.entries) = n
               /\ \A i \in 1..(n - 1) : reports.entries[i] = patch.before.entries[i]
               /\ reports.entries[n].kind = "html"
               /\ OnlySlotsChanged(patch.before.entries[n].doc, reports.entries[n].doc,
                                   ReplacementValues(d.summary, d.sessions))
      ELSE reports = patch.before

IsHeading(line) == line.kind = "heading"

HeadingsOf(lines) == [i \in 1..Len(SelectSeq(lines, IsHeading)) |->
                        SelectSeq(lines, IsHeading)[i].name]

\* C25: generate_markdown_report never raises on a ledger reached from the
\* empty one by record_session calls, zero calls included: nothing is divided
\* by total_tokens, total_sessions or total_cost_usd when that is 0; and the
\* report holds the sections Executive Summary, Token Usage Breakdown,
\* Session Details and Cost Optimization Recommendations, in that order.
C25_ReportNeverRaises ==
    (report.called /\ report.origin \in {"absent", "unreadable", "unparseable"}) =>
       /\ report.outcome = "returned"
       /\ \A i \in 1..Len(report.lines) : report.lines[i].ok
       /\ HeadingsOf(report.lines) =
             <<"Cost Statistics Report", "Executive Summary", "Token Usage Breakdown",
               "Session Details", "Cost Optimization Recommendations">>

\* C25 witness: the report of a ledger that started empty and holds tokens
\* whose total cost is 0.0000: the token table is there, the share of the
\* output cost in the total cost is not computed
C25_Witness ==
    /\ report.called
    /\ report.origin = "absent"
    /\ report.outcome = "returned"
    /\ \E i \in 1..Len(report.lines) :
          report.lines[i] = Row("Total Cost", 0)
    /\ \E i \in 1..Len(report.lines) :
          report.lines[i].name = "Total" /\ report.lines[i].v > 0
    /\ \E i \in 1..Len(report.lines) :
          report.lines[i].name = "Average Cost per Session" /\ report.lines[i].ok

(***************************************************************************)
(* Claims about two trackers of one project directory (SpecWriters).       *)
(***************************************************************************)
\* C26: with two tracker processes on one project directory whose
\* record_session calls interleave at open, write and rename of the
\* temporary file, a reader of usage_statistics.json only ever finds a
\* complete ledger serialized by one of the writers (never a partial text or
\* a mixture of both), and no record_session call raises.
C26_ReaderSeesOneWritersLedger ==
    /\ stats_file.kind = "text" => stats_file.text \in race.dumped
    /\ \A w \in Writers : ~race.w[w].raised

(***************************************************************************)
(* Claims about a record_session call that raises (SpecLoaded).            *)
(***************************************************************************)
\* a step that is a record_session call leaving by an exception
RecordSessionRaises ==
    \E input \in RecordInputs, fetch \in LedgerFetches :
       RecordSession(input, fetch, TRUE) /\ rs'.status = "raised"

\* C28: a record_session call that raises (tokens of the wrong shape, or a
\* session loaded from disk without token or cost fields) leaves the
\* tracker's sessions and summary and the statistics file as they were.
C28_RaiseLeavesStateUntouched ==
    [][RecordSessionRaises =>
          /\ data' = data
          /\ stats_file' = stats_file
          /\ tmp_file' = tmp_file]_vars

(***************************************************************************)
(* Claims about the harness (SpecLoop).                                    *)
(***************************************************************************)
\* a step in which record_session is invoked
RecordInvoked == rs.status = "none" /\ rs'.status # "none"

\* a step in which the tracker's list of sessions grows
RecordAppended == pc = "idle" /\ pc' # "none" /\ Len(data'.sessions) > Len(data.sessions)

\* C27: the loop invokes record_session only after the iteration's session
\* has ended and its client was closed and cleanup was called, and before the
\* next session starts; at most one record is appended per iteration, none
\* for a session that ended in error or without usage data; and an exception
\* of record_session does not stop the loop.
C27_RecordedOnceAfterSession ==
    [][ /\ RecordInvoked =>
              /\ run.pc = "record"
              /\ run.client \in {"released", "cleanup_failed"}
              /\ run.status = "CONTINUE"
              /\ UsageAvailable(run.usage_data)
              /\ run.started = run.iteration
        /\ RecordAppended =>
              /\ RecordInvoked
              /\ Len(data'.sessions) = run.before + 1
        /\ (run.pc # "session" /\ run'.pc = "session") =>
              /\ pc = "idle"
              /\ tmp_file.kind = "absent"
              /\ run.before = Len(data.sessions)
        /\ run.pc = "record" =>
              \/ run'.pc \in {"record", "status"}
              \/ run'.exit_code = 130 ]_vars

\* a second session has started although recording the first one raised
C27_Witness ==
    /\ run.pc = "session"
    /\ run.iteration = 2
    /\ rs.status = "raised"
    /\ Len(data.sessions) = 2

\* the run was not interrupted from the keyboard
NotInterrupted == run.raised_in # "interrupt"

\* the loop was left after a CONTINUE session with total > 0, no test case
\* 'Not Run' and every test case Blocked
EndedAllBlocked ==
    /\ run.ended \in {"blocked", "completed"}
    /\ run.status = "CONTINUE"
    /\ AllTestsExecuted(count_test_cases(run.test_cases))
    /\ EveryTestBlocked(count_test_cases(run.test_cases))

\* C29: the exit code of the process is 1 exactly when the loop ended with
\* every test case Blocked (after a CONTINUE session, total > 0, none 'Not
\* Run'), 2 when run_autonomous_testing_agent raised, and 0 whenever the loop
\* ended otherwise, whatever became of the cost report and the HTML patch.
C29_ExitCodes ==
    (run.pc = "exited" /\ NotInterrupted) =>
       /\ run.exit_code = 1 <=> EndedAllBlocked
       /\ run.raised_in \in {"setup", "client"} => run.exit_code = 2
       /\ (run.ended # "none" /\ ~EndedAllBlocked) => run.exit_code = 0

\* C30: with max_iterations = N > 0 the run starts at most N sessions and
\* then reaches the final summary and returns, whether the sessions end in
\* CONTINUE or ERROR; it stops before N sessions only after a CONTINUE
\* session that left total > 0 and no test case 'Not Run'.
C30_AtMostNSessionsThenSummary ==
    run.max_iterations > 0 =>
       /\ run.started <= run.max_iterations
       /\ run.pc # "raised"
       /\ (run.ended # "none" /\ run.started < run.max_iterations) =>
             /\ run.status = "CONTINUE"
             /\ AllTestsExecuted(count_test_cases(run.test_cases))

====
